---- MODULE Spec2Model ----
(***************************************************************************)
(* Model of src/app.js: the multi-tape Turing machine stepper              *)
(* (class MultiTapeTuringMachine) and the part of the TM editor that       *)
(* builds a machine definition from the editor's transition list; the      *)
(* finite-automaton page (evaluateFA and the pipeline                      *)
(* expandLabelsToUnitNFA, epsilonClosure, determinizeNFA, minimizeDFA)     *)
(* and the pushdown-automaton page (evaluatePDA).                          *)
(*                                                                         *)
(* A JavaScript string is the sequence of its characters, a Set the        *)
(* sequence of its members in insertion order, and a Map the sequence of   *)
(* its entries in insertion order.                                         *)
(*                                                                         *)
(* Tape positions are JavaScript numbers used as Map keys; they are        *)
(* modelled as integers.  Tape index i of the source is index i+1 here     *)
(* (sequences are 1-based); tape positions keep the source's 0-based       *)
(* numbering.  null is modelled by Null, and a null key by NoKey.          *)
(* Message texts are the source's, written without accents.                *)
(***************************************************************************)
EXTENDS Integers, Sequences, FiniteSets, TLC

VARIABLES
    m,          \* the live MultiTapeTuringMachine instances (a sequence of records)
    ret,        \* per instance: the value returned by its last step() call
    stepCalls,  \* per instance: the caller's position, step() calls since construction/reset
    resetArg,   \* per instance: the inputTapes argument of the last constructor/reset call
    writeCalls, \* per instance: direct write() calls since construction/reset
    editor,     \* the TM editor object: nodes, transitions
    field,      \* the DOM fields the builder reads: tapeCount value, tape 1 text
    ctl,        \* runTimer and the disabled flags of the step/run/pause buttons
    msg,        \* the last message shown (type and text)
    faForm,     \* the fields of the FA form, as the listeners read them
    faRun,      \* the evaluateFA call of handleFaEvaluate: its locals and position
    faOut,      \* faResult and faMessage
    faPipe,     \* faMinimizedOutput, and the automata handleFaMinimize computed for it
    closureRun, \* an epsilonClosure call: its arguments, locals and position
    refineRun,  \* a minimizeDFA call: its locals and position in the second loop
    frame,      \* the last call of the pipeline on references: heap before and after
    pdaForm,    \* the fields of the PDA form
    pdaRun,     \* the evaluatePDA call of handlePdaEvaluate: its locals and position
    pdaOut      \* pdaResult and pdaMessage

vars == <<m, ret, stepCalls, resetArg, writeCalls, editor, field, ctl, msg,
          faForm, faRun, faOut, faPipe, closureRun, refineRun, frame,
          pdaForm, pdaRun, pdaOut>>
tmVars == <<m, ret, stepCalls, resetArg, writeCalls>>
edVars == <<editor, field, ctl, msg>>
faVars == <<faForm, faRun, faOut, faPipe, closureRun, refineRun, frame>>
pdaVars == <<pdaForm, pdaRun, pdaOut>>

\* ---------------------------------------------------------------- bounds
MaxCalls == 8
MaxWrites == 2

\* ------------------------------------------------------------ primitives
Null == "null"
NoKey == <<>>
Blank == "#"
InitialSymbol == ">"

Range(s) == {s[i] : i \in DOMAIN s}

\* key = `${fromState}|${readSymbols.join("\u0001")}`: the state followed by the
\* symbols; neither a state name nor a modelled symbol holds a separator.
transitionKey(fromState, readSymbols) == <<fromState>> \o readSymbols

\* Map.set(pos, symbol)
MapSet(tape, pos, symbol) ==
    [p \in (DOMAIN tape) \cup {pos} |-> IF p = pos THEN symbol ELSE tape[p]]

\* Map.delete(pos)
MapDelete(tape, pos) == [p \in (DOMAIN tape) \ {pos} |-> tape[p]]

EmptyMap == [p \in {} |-> Blank]

\* ------------------------------------------------- MultiTapeTuringMachine
\* reset(): one fresh Map per tape, holding the non-blank symbols of the
\* matching input tape at the positions 0..n-1.
resetTape(symbols, blankSymbol) ==
    [p \in {k - 1 : k \in {j \in DOMAIN symbols : symbols[j] # blankSymbol}}
        |-> symbols[p + 1]]

\* reset that forgets to rewind the heads
resetKeepHeads(mach, inputTapes) ==
    [mach EXCEPT
        !.currentState = mach.startState,
        !.stepCount = 0,
        !.halted = FALSE,
        !.haltReason = "",
        !.lastTransitionKey = NoKey,
        !.tapes = [t \in 1..mach.tapeCount |->
                      IF t <= Len(inputTapes)
                      THEN resetTape(inputTapes[t], mach.blankSymbol)
                      ELSE EmptyMap]]

\* reset that writes the new symbols over the old Maps instead of fresh ones
resetKeepTapes(mach, inputTapes) ==
    [mach EXCEPT
        !.currentState = mach.startState,
        !.stepCount = 0,
        !.halted = FALSE,
        !.haltReason = "",
        !.lastTransitionKey = NoKey,
        !.heads = [t \in 1..mach.tapeCount |-> 0],
        !.tapes = [t \in 1..mach.tapeCount |->
                      IF t <= Len(inputTapes)
                      THEN LET fresh == resetTape(inputTapes[t], mach.blankSymbol)
                           IN [p \in (DOMAIN mach.tapes[t]) \cup (DOMAIN fresh) |->
                                  IF p \in DOMAIN fresh THEN fresh[p]
                                  ELSE mach.tapes[t][p]]
                      ELSE mach.tapes[t]]]

reset(mach, inputTapes) ==
    [mach EXCEPT
        !.currentState = mach.startState,
        !.stepCount = 0,
        !.halted = FALSE,
        !.haltReason = "",
        !.lastTransitionKey = NoKey,
        !.heads = [t \in 1..mach.tapeCount |-> 0],
        !.tapes = [t \in 1..mach.tapeCount |->
                      IF t <= Len(inputTapes)
                      THEN resetTape(inputTapes[t], mach.blankSymbol)
                      ELSE EmptyMap]]

\* constructor(definition, inputTapes, blankSymbol, initialSymbol)
NewMachine(definition, inputTapes) ==
    reset([states |-> definition.states,
           startState |-> definition.startState,
           acceptStates |-> definition.acceptStates,
           transitions |-> definition.transitions,
           tapeCount |-> definition.tapeCount,
           blankSymbol |-> Blank,
           initialSymbol |-> InitialSymbol,
           initialTapes |-> inputTapes,
           currentState |-> definition.startState,
           stepCount |-> 0,
           halted |-> FALSE,
           haltReason |-> "",
           lastTransitionKey |-> NoKey,
           heads |-> [t \in 1..definition.tapeCount |-> 0],
           tapes |-> [t \in 1..definition.tapeCount |-> EmptyMap]],
          inputTapes)

read(mach, tapeIndex) ==
    LET head == mach.heads[tapeIndex]
        tape == mach.tapes[tapeIndex]
    IN IF head \in DOMAIN tape THEN tape[head] ELSE mach.blankSymbol

\* write that stores the blank symbol like any other
writeStoreBlank(mach, tapeIndex, symbol) ==
    [mach EXCEPT !.tapes[tapeIndex] = MapSet(@, mach.heads[tapeIndex], symbol)]

write(mach, tapeIndex, symbol) ==
    LET head == mach.heads[tapeIndex]
    IN IF symbol = mach.blankSymbol
       THEN [mach EXCEPT !.tapes[tapeIndex] = MapDelete(@, head)]
       ELSE [mach EXCEPT !.tapes[tapeIndex] = MapSet(@, head, symbol)]

\* the moves with left and right exchanged
moveHeadSwapped(head, move) ==
    IF move = "R" THEN head - 1 ELSE IF move = "L" THEN head + 1 ELSE head

\* the head after a move: "R" adds one, "L" subtracts one, anything else stays
moveHead(head, move) ==
    IF move = "R" THEN head + 1 ELSE IF move = "L" THEN head - 1 ELSE head

\* one iteration of transition.actions.forEach, moving the head first
applyActionMoveFirst(mach, action, tapeIndex) ==
    LET moved == [mach EXCEPT !.heads[tapeIndex] = moveHead(@, action.move)]
    IN IF action.writeSymbol # Null /\ action.writeSymbol # ""
       THEN write(moved, tapeIndex, action.writeSymbol)
       ELSE moved

\* one iteration of transition.actions.forEach: the write, then the move
applyAction(mach, action, tapeIndex) ==
    LET written == IF action.writeSymbol # Null /\ action.writeSymbol # ""
                   THEN write(mach, tapeIndex, action.writeSymbol)
                   ELSE mach
    IN [written EXCEPT !.heads[tapeIndex] = moveHead(@, action.move)]

\* transition.actions.forEach over the tape indices in the given order
RECURSIVE applyActions(_, _, _)
applyActions(mach, actions, order) ==
    IF order = <<>> THEN mach
    ELSE applyActions(applyAction(mach, actions[Head(order)], Head(order)),
                      actions, Tail(order))

\* forEach visits the indices 0, 1, ... in increasing order
ForwardOrder(n) == [i \in 1..n |-> i]
BackwardOrder(n) == [i \in 1..n |-> n + 1 - i]

\* step() on a halted machine that still counts the call
stepHaltedCounting(mach) ==
    [mach |-> [mach EXCEPT !.stepCount = @ + 1],
     result |-> [status |-> "halted", message |-> <<mach.haltReason>>]]

\* step(), first branch: already halted
stepHalted(mach) ==
    [mach |-> mach,
     result |-> [status |-> "halted",
                 message |-> IF mach.haltReason # "" THEN <<mach.haltReason>>
                             ELSE <<"La maquina ya esta detenida.">>]]

\* step(), second branch: the current state is an accept state
stepAccepting(mach) ==
    [mach |-> [mach EXCEPT !.halted = TRUE, !.haltReason = "Aceptacion."],
     result |-> [status |-> "accept",
                 message |-> <<"La maquina llego a un estado de aceptacion.">>]]

\* the no-transition branch leaving the marker of the previous step in place
stepNoTransitionKeepMarker(mach, readSymbols) ==
    [mach |-> [mach EXCEPT !.halted = TRUE,
                           !.haltReason = "Sin transicion aplicable."],
     result |-> [status |-> "halted",
                 message |-> <<"No existe transicion para", mach.currentState>>
                             \o readSymbols]]

\* step(), third branch: no transition for the key
stepNoTransition(mach, readSymbols) ==
    [mach |-> [mach EXCEPT !.halted = TRUE,
                           !.haltReason = "Sin transicion aplicable.",
                           !.lastTransitionKey = NoKey],
     result |-> [status |-> "halted",
                 message |-> <<"No existe transicion para", mach.currentState>>
                             \o readSymbols]]

\* the firing branch without the acceptance check after the move
stepFireNoAcceptCheck(mach, key) ==
    LET transition == mach.transitions[key]
        acted == applyActions(mach, transition.actions,
                              ForwardOrder(Len(transition.actions)))
    IN [mach |-> [acted EXCEPT !.lastTransitionKey = key,
                               !.currentState = transition.nextState,
                               !.stepCount = @ + 1],
        result |-> [status |-> "running", message |-> <<"Paso ejecutado.">>]]

\* step(), last branch: the transition for the key fires
stepFire(mach, key) ==
    LET transition == mach.transitions[key]
        acted == applyActions(mach, transition.actions,
                              ForwardOrder(Len(transition.actions)))
        next == [acted EXCEPT !.lastTransitionKey = key,
                              !.currentState = transition.nextState,
                              !.stepCount = @ + 1]
    IN IF next.currentState \in next.acceptStates
       THEN [mach |-> [next EXCEPT !.halted = TRUE, !.haltReason = "Aceptacion."],
             result |-> [status |-> "accept",
                         message |-> <<"La maquina acepto la entrada.">>]]
       ELSE [mach |-> next,
             result |-> [status |-> "running", message |-> <<"Paso ejecutado.">>]]

readAll(mach) == [i \in 1..Len(mach.heads) |-> read(mach, i)]

\* step() that looks the transition up before it tests for acceptance
stepLookupFirst(mach) ==
    IF mach.halted THEN stepHalted(mach)
    ELSE LET readSymbols == readAll(mach)
             key == transitionKey(mach.currentState, readSymbols)
         IN IF key \in DOMAIN mach.transitions THEN stepFire(mach, key)
            ELSE IF mach.currentState \in mach.acceptStates THEN stepAccepting(mach)
            ELSE stepNoTransition(mach, readSymbols)

step(mach) ==
    IF mach.halted THEN stepHalted(mach)
    ELSE IF mach.currentState \in mach.acceptStates THEN stepAccepting(mach)
    ELSE LET readSymbols == readAll(mach)
             key == transitionKey(mach.currentState, readSymbols)
         IN IF key \notin DOMAIN mach.transitions
            THEN stepNoTransition(mach, readSymbols)
            ELSE stepFire(mach, key)

\* ------------------------------------------------------ machine inputs
Act(writeSymbol, move) == [writeSymbol |-> writeSymbol, move |-> move]
Tr(nextState, actions) == [nextState |-> nextState, actions |-> actions]

\* the two transitions of the unary copy machine
CopyTransitions ==
    (<<"e0", "1", "#">> :> Tr("e0", <<Act(Null, "R"), Act("1", "R")>>)) @@
    (<<"e0", "#", "#">> :> Tr("ef", <<Act(Null, "S"), Act(Null, "S")>>))

\* the relation loadExample enters: the copy machine plus the start-marker rule
ExampleTransitions ==
    (<<"e0", ">", ">">> :> Tr("e0", <<Act(Null, "R"), Act(Null, "R")>>)) @@
    CopyTransitions

\* a machine that erases, writes the empty string, runs left of position 0 and loops
ZigzagTransitions ==
    (<<"e0", "1", "#">> :> Tr("e1", <<Act("#", "L"), Act("a", "S")>>)) @@
    (<<"e1", "#", "a">> :> Tr("e0", <<Act("1", "L"), Act("#", "L")>>)) @@
    (<<"e0", "#", "#">> :> Tr("e1", <<Act("", "S"), Act("a", "R")>>)) @@
    (<<"e1", "#", "#">> :> Tr("e1", <<Act("1", "R"), Act("a", "L")>>)) @@
    (<<"e1", "1", "a">> :> Tr("ef", <<Act("a", "R"), Act("1", "L")>>)) @@
    (<<"e1", "1", "#">> :> Tr("e0", <<Act(Null, "L"), Act("#", "R")>>))

OneTapeTransitions ==
    (<<"e0", "1">> :> Tr("e0", <<Act("#", "R")>>)) @@
    (<<"e0", "#">> :> Tr("e1", <<Act("1", "L")>>)) @@
    (<<"e1", "#">> :> Tr("e1", <<Act(Null, "L")>>)) @@
    (<<"e0", ">">> :> Tr("ef", <<Act("1", "S")>>))

Def(states, startState, acceptStates, transitions, tapeCount) ==
    [states |-> states, startState |-> startState, acceptStates |-> acceptStates,
     transitions |-> transitions, tapeCount |-> tapeCount]

CopyDefinition == Def({"e0", "ef"}, "e0", {"ef"}, CopyTransitions, 2)
ExampleDefinition == Def({"e0", "ef"}, "e0", {"ef"}, ExampleTransitions, 2)

Definitions ==
    { CopyDefinition,
      ExampleDefinition,
      Def({"e0", "ef"}, "e0", {"e0", "ef"}, ExampleTransitions, 2),
      Def({"e0", "e1", "ef"}, "e0", {"ef"}, ZigzagTransitions, 2),
      Def({"e0", "e1", "ef"}, "e0", {"ef"}, OneTapeTransitions, 1),
      Def({"e0", "e1", "ef"}, "e0", {}, OneTapeTransitions, 1) }

CopyTapes == << <<"1", "1", "1", "1", "1">>, <<"#", "#", "#", "#", "#">> >>
ExampleTapes == << <<">", "1", "1", "1", "1", "1", "#">>, <<">">> >>

InputTapes(tapeCount) ==
    IF tapeCount = 1
    THEN { << <<"1", "1">> >>, << <<"#", "1">> >>, << <<">">> >> }
    ELSE { CopyTapes, ExampleTapes, << <<"1", "#", "1">>, <<"a">> >> }

Symbols == {"#", "1", "a"}

NoResult == [status |-> "none", message |-> <<>>]

\* ------------------------------------------------------- stepper actions
\* machine.step() called on instance i
Step(i) ==
    /\ stepCalls[i] < MaxCalls
    /\ LET r == step(m[i])
       IN /\ m' = [m EXCEPT ![i] = r.mach]
          /\ ret' = [ret EXCEPT ![i] = r.result]
    /\ stepCalls' = [stepCalls EXCEPT ![i] = @ + 1]
    /\ UNCHANGED <<resetArg, writeCalls, edVars, faVars, pdaVars>>

\* machine.reset(inputTapes) called on instance i
Reset(i) ==
    \E inputTapes \in InputTapes(m[i].tapeCount) :
        /\ m' = [m EXCEPT ![i] = reset(m[i], inputTapes)]
        /\ stepCalls' = [stepCalls EXCEPT ![i] = 0]
        /\ writeCalls' = [writeCalls EXCEPT ![i] = 0]
        /\ resetArg' = [resetArg EXCEPT ![i] = inputTapes]
        /\ UNCHANGED <<ret, edVars, faVars, pdaVars>>

\* machine.reset() called on instance i: the argument defaults to initialTapes
ResetDefault(i) ==
    /\ m' = [m EXCEPT ![i] = reset(m[i], m[i].initialTapes)]
    /\ stepCalls' = [stepCalls EXCEPT ![i] = 0]
    /\ writeCalls' = [writeCalls EXCEPT ![i] = 0]
    /\ resetArg' = [resetArg EXCEPT ![i] = m[i].initialTapes]
    /\ UNCHANGED <<ret, edVars, faVars, pdaVars>>

\* machine.write(tapeIndex, symbol) called on instance i
Write(i) ==
    /\ writeCalls[i] < MaxWrites
    /\ \E tapeIndex \in 1..m[i].tapeCount, symbol \in Symbols :
          m' = [m EXCEPT ![i] = write(m[i], tapeIndex, symbol)]
    /\ writeCalls' = [writeCalls EXCEPT ![i] = @ + 1]
    /\ UNCHANGED <<ret, stepCalls, resetArg, edVars, faVars, pdaVars>>

\* ---------------------------------------------------------- TM editor
MaxTapes == 2
MaxEditorTransitions == 4

\* an edge key `${fromState}=>${toState}`; a null selection is NoKey
edgeKey(fromState, toState) == <<fromState, toState>>

EdTr(fromState, readSymbols, actions, nextState) ==
    [fromState |-> fromState, readSymbols |-> readSymbols,
     actions |-> actions, nextState |-> nextState]

\* parseInt(ui.tapeCount.value, 10): a finite number or NaN
Parsed(n) == [finite |-> TRUE, n |-> n]
NotANumber == [finite |-> FALSE, n |-> 0]

getConfiguredTapeCount(fld) ==
    LET parsed == IF fld.tapeCount.finite THEN fld.tapeCount.n ELSE 2
    IN IF parsed > 1 THEN parsed ELSE 1

\* the text of the tape 1 input is held as the symbols parseTapeSymbols reads
\* from it; the empty text is <<>>, which parseTapeSymbols refuses.
TapeTextOk(fld) == fld.tape1 # <<>>

readInitialTapesFromEditor(fld) ==
    [i \in 1..getConfiguredTapeCount(fld) |->
        IF i = 1 THEN fld.tape1 ELSE <<InitialSymbol>>]

DefaultFirstTape == <<">", "1", "1", "1", "#">>

normalizeTransitionToTapeCount(transition, tapeCount) ==
    LET reads == transition.readSymbols
        acts == transition.actions
        fillReadSymbol == IF Len(reads) > 0 /\ \A i \in DOMAIN reads : reads[i] = ">"
                          THEN ">" ELSE "#"
    IN [transition EXCEPT
          !.readSymbols = [i \in 1..tapeCount |->
                              IF i <= Len(reads) THEN reads[i] ELSE fillReadSymbol],
          !.actions = [i \in 1..tapeCount |->
                          IF i <= Len(acts) THEN acts[i] ELSE Act(Null, "R")]]

KeyOf(transition) == transitionKey(transition.fromState, transition.readSymbols)

\* normalizedMap.set(key, value): a new key goes last, a known key keeps its
\* place and takes the new value
normalizedMapSet(entries, transition) ==
    IF \E i \in DOMAIN entries : KeyOf(entries[i]) = KeyOf(transition)
    THEN [i \in DOMAIN entries |->
             IF KeyOf(entries[i]) = KeyOf(transition) THEN transition ELSE entries[i]]
    ELSE Append(entries, transition)

RECURSIVE autoAdjustFrom(_, _, _)
autoAdjustFrom(entries, transitions, tapeCount) ==
    IF transitions = <<>> THEN entries
    ELSE autoAdjustFrom(
            normalizedMapSet(entries,
                normalizeTransitionToTapeCount(Head(transitions), tapeCount)),
            Tail(transitions), tapeCount)

\* the value editor.transitions has after autoAdjustTransitionsToTapeCount
autoAdjustTransitionsToTapeCount(transitions, tapeCount) ==
    autoAdjustFrom(<<>>, transitions, tapeCount)

\* the loop of buildMachineFromEditor over editor.transitions: does it meet a
\* key the Map already has?
buildMeetsDuplicate(transitions, tapeCount) ==
    \E i, j \in DOMAIN transitions :
        /\ i < j
        /\ KeyOf(normalizeTransitionToTapeCount(transitions[i], tapeCount))
             = KeyOf(normalizeTransitionToTapeCount(transitions[j], tapeCount))

\* the Map the loop of buildMachineFromEditor fills when it meets no duplicate
buildTransitionMap(transitions, tapeCount) ==
    LET normalized == [i \in DOMAIN transitions |->
                          normalizeTransitionToTapeCount(transitions[i], tapeCount)]
    IN [k \in {KeyOf(normalized[i]) : i \in DOMAIN normalized} |->
          LET i == CHOOSE i \in DOMAIN normalized : KeyOf(normalized[i]) = k
          IN Tr(normalized[i].nextState, normalized[i].actions)]

NoDefinition == Def({}, Null, {}, <<>>, 0)

Thrown(error, transitions) ==
    [ok |-> FALSE, error |-> error, transitions |-> transitions,
     definition |-> NoDefinition, tapes |-> <<>>]

\* buildMachineFromEditor(): what it returns or throws, and the value it leaves
\* in editor.transitions
buildMachineFromEditor(ed, fld) ==
    LET startNodes == {name \in DOMAIN ed.nodes : ed.nodes[name].isStart}
        tapes == readInitialTapesFromEditor(fld)
        tapeCount == Len(tapes)
        adjusted == autoAdjustTransitionsToTapeCount(ed.transitions, tapeCount)
    IN IF DOMAIN ed.nodes = {}
       THEN Thrown("Debes crear al menos un estado.", ed.transitions)
       ELSE IF Cardinality(startNodes) # 1
       THEN Thrown("Debe existir exactamente un estado inicial.", ed.transitions)
       ELSE IF ~TapeTextOk(fld)
       THEN Thrown("La cinta1 no puede estar vacia.", ed.transitions)
       ELSE IF buildMeetsDuplicate(adjusted, tapeCount)
       THEN Thrown("No determinista: transicion duplicada.", adjusted)
       ELSE [ok |-> TRUE, error |-> "", transitions |-> adjusted,
             definition |->
                 Def(DOMAIN ed.nodes,
                     CHOOSE name \in startNodes : TRUE,
                     {name \in DOMAIN ed.nodes : ed.nodes[name].isAccept},
                     buildTransitionMap(adjusted, tapeCount),
                     tapeCount),
             tapes |-> tapes]

\* the machine variable of the page is m: <<>> when null, else <<machine>>
stopRun(c, machines) ==
    LET cleared == IF c.runTimer # 0
                   THEN [c EXCEPT !.timers = @ \ {c.runTimer}, !.runTimer = 0]
                   ELSE c
    IN IF machines # <<>> /\ ~machines[1].halted
       THEN [cleared EXCEPT !.pauseDisabled = TRUE, !.runDisabled = FALSE,
                            !.stepDisabled = FALSE]
       ELSE cleared

setRunButtons(c, enabled) ==
    [c EXCEPT !.stepDisabled = ~enabled, !.runDisabled = ~enabled,
              !.pauseDisabled = TRUE]

Message(text, type) == [text |-> text, type |-> type]

\* addOrReplaceTransition(parsed): editor.transitions afterwards
addOrReplaceTransition(transitions, parsed) ==
    IF \E i \in DOMAIN transitions : KeyOf(transitions[i]) = KeyOf(parsed)
    THEN LET idx == CHOOSE i \in DOMAIN transitions :
                       /\ KeyOf(transitions[i]) = KeyOf(parsed)
                       /\ \A j \in 1..(i - 1) : KeyOf(transitions[j]) # KeyOf(parsed)
         IN [transitions EXCEPT ![idx] = parsed]
    ELSE Append(transitions, parsed)

ExampleNodes ==
    ("e0" :> [isStart |-> TRUE, isAccept |-> FALSE]) @@
    ("ef" :> [isStart |-> FALSE, isAccept |-> TRUE])

ExampleEditorTransitions ==
    << EdTr("e0", <<">", ">">>, <<Act(Null, "R"), Act(Null, "R")>>, "e0"),
       EdTr("e0", <<"1", "#">>, <<Act(Null, "R"), Act("1", "R")>>, "e0"),
       EdTr("e0", <<"#", "#">>, <<Act(Null, "S"), Act(Null, "S")>>, "ef") >>

\* the page after its script has run: loadExample() is its last statement
ExampleEditor ==
    [nodes |-> ExampleNodes,
     transitions |-> ExampleEditorTransitions,
     selectedState |-> "e0",
     selectedTransitionKey |-> NoKey]

ExampleField == [tapeCount |-> Parsed(2), tape1 |-> ExampleTapes[1]]

InitialControls ==
    [runTimer |-> 0, timers |-> {}, stepDisabled |-> TRUE, runDisabled |-> TRUE,
     pauseDisabled |-> TRUE]

\* the lines a user saves: one transition each, of width 1 or 2; the first
\* shares its first read symbol with a transition of the example, the last
\* names an undeclared state
ParsedLines ==
    { EdTr("e0", <<"1", "1">>, <<Act("1", "S"), Act(Null, "L")>>, "ef"),
      EdTr("e0", <<"1">>, <<Act("#", "R")>>, "e0"),
      EdTr("e9", <<"1", "1">>, <<Act(Null, "R"), Act(Null, "R")>>, "e0") }

TapeCountValues == {Parsed(n) : n \in 0..MaxTapes} \cup {NotANumber}
Tape1Texts == {<<>>, ExampleTapes[1]}

\* ------------------------------------------------- TM page: running
\* The page during a run: c is the controls with runTimer and the set of live
\* interval timers, machines is the machine variable.
\* setInterval: the identifier of the new timer
newTimer(c) ==
    CHOOSE id \in 1..(Cardinality(c.timers) + 1) : id \notin c.timers

\* runMachine()
runMachine(c, machines) ==
    IF machines = <<>> \/ machines[1].halted THEN c
    ELSE [c EXCEPT !.pauseDisabled = FALSE, !.runDisabled = TRUE,
                   !.stepDisabled = TRUE,
                   !.runTimer = newTimer(c),
                   !.timers = @ \cup {newTimer(c)}]

\* executeStep(): the controls, the machine, the result of step() and the
\* message afterwards
executeStep(c, machines, result, message) ==
    IF machines = <<>>
    THEN [ctl |-> c, m |-> machines, ret |-> result, msg |-> message]
    ELSE LET r == step(machines[1])
             type == IF r.result.status = "accept" THEN "ok" ELSE "warn"
         IN [ctl |-> IF r.result.status \in {"accept", "halted"}
                     THEN stopRun(c, <<r.mach>>) ELSE c,
             m |-> <<r.mach>>,
             ret |-> <<r.result>>,
             msg |-> Message(r.result.message, type)]

\* the speed listener starting a timer without stopping the one that runs
speedInputNoStop(c, machines) ==
    IF c.runTimer # 0 THEN runMachine(c, machines) ELSE c

\* the input listener of the speed slider
speedInput(c, machines) ==
    IF c.runTimer # 0 THEN runMachine(stopRun(c, machines), machines) ELSE c

\* the error resetMachine ends on, "" when it resets the machine
resetError(machines, fld) ==
    IF machines = <<>> THEN "Primero inicializa la maquina."
    ELSE IF ~TapeTextOk(fld) THEN "La cinta1 no puede estar vacia."
    ELSE IF Len(readInitialTapesFromEditor(fld)) # machines[1].tapeCount
    THEN "El numero de cintas cambio. Inicializa de nuevo la maquina."
    ELSE ""

\* ------------------------------------------- TM editor: states and lists
MaxStates == 2

\* `e${i}`
StateName(i) == <<"e0", "e1", "e2", "e3", "e4", "e5">>[i + 1]

\* generateStateName(): the first e<i> that is not a node
generateStateName(nodes) ==
    StateName(CHOOSE i \in 0..Cardinality(DOMAIN nodes) :
                 /\ StateName(i) \notin DOMAIN nodes
                 /\ \A j \in 0..(i - 1) : StateName(j) \in DOMAIN nodes)

\* addState(name, x, y) with a name that is not a node yet
addState(ed, name) ==
    LET hasStart == \E n \in DOMAIN ed.nodes : ed.nodes[n].isStart
    IN [ed EXCEPT
          !.nodes = [n \in DOMAIN ed.nodes \cup {name} |->
                        IF n = name
                        THEN [isStart |-> ~hasStart, isAccept |-> FALSE]
                        ELSE ed.nodes[n]],
          !.selectedState = name]

\* a deletion that keeps the transitions that lead to the deleted state
deleteSelectedStateKeepsIncoming(ed) ==
    LET state == ed.selectedState
        kept(t) == t.fromState # state
    IN [ed EXCEPT
          !.nodes = [n \in DOMAIN ed.nodes \ {state} |-> ed.nodes[n]],
          !.transitions = SelectSeq(@, kept),
          !.selectedState = Null,
          !.selectedTransitionKey = NoKey]

\* deleteSelectedState() with a node selected
deleteSelectedState(ed) ==
    LET state == ed.selectedState
        kept(t) == t.fromState # state /\ t.nextState # state
    IN [ed EXCEPT
          !.nodes = [n \in DOMAIN ed.nodes \ {state} |-> ed.nodes[n]],
          !.transitions = SelectSeq(@, kept),
          !.selectedState = Null,
          !.selectedTransitionKey = NoKey]

\* the error the loop over the lines of the preview (or the rows of the
\* table) throws, "" when it throws none
listError(ed, fld, list) ==
    LET expected == getConfiguredTapeCount(fld)
        bad(i) ==
            \/ list[i].fromState \notin DOMAIN ed.nodes
            \/ list[i].nextState \notin DOMAIN ed.nodes
            \/ Len(list[i].readSymbols) # expected
            \/ Len(list[i].actions) # expected
            \/ \E j \in 1..(i - 1) : KeyOf(list[j]) = KeyOf(list[i])
    IN IF \E i \in DOMAIN list : bad(i)
       THEN LET first == CHOOSE i \in DOMAIN list :
                            bad(i) /\ \A j \in 1..(i - 1) : ~bad(j)
            IN IF list[first].fromState \notin DOMAIN ed.nodes
                  \/ list[first].nextState \notin DOMAIN ed.nodes
               THEN "estado no existe en el diagrama"
               ELSE IF Len(list[first].readSymbols) # expected
               THEN "La lectura debe tener un valor por cinta."
               ELSE IF Len(list[first].actions) # expected
               THEN "Las acciones deben tener un valor por cinta."
               ELSE "Transicion duplicada"
       ELSE ""

\* editor.transitions = next, and the selection dropped when no transition
\* is left on its edge
replaceList(ed, list) ==
    [ed EXCEPT
       !.transitions = list,
       !.selectedTransitionKey =
          IF @ # NoKey /\ ~\E i \in DOMAIN list :
                             edgeKey(list[i].fromState, list[i].nextState) = @
          THEN NoKey ELSE @]

\* importTransitionsFromPreview() on the lines of the preview
importTransitionsFromPreview(ed, fld, lines) ==
    IF listError(ed, fld, lines) # "" THEN ed ELSE replaceList(ed, lines)

\* the error applyTransitionsFromTable throws on these rows, "" when none
tableError(ed, fld, rows) ==
    IF \E i \in DOMAIN rows : rows[i].fromState = "" \/ rows[i].nextState = ""
    THEN "Todas las filas deben tener Estado y Estado Final."
    ELSE listError(ed, fld, rows)

\* applyTransitionsFromTable() on the rows collectTransitionsFromTable returns
applyTransitionsFromTable(ed, fld, rows) ==
    IF tableError(ed, fld, rows) # "" THEN ed ELSE replaceList(ed, rows)

\* ------------------------------------------------------- editor actions
\* Ctrl+Enter in the transition input: saveTransitionFromEditor() with one line
SaveTransition ==
    \E parsed \in ParsedLines :
        LET expected == getConfiguredTapeCount(field)
            target == editor.selectedTransitionKey
            error ==
                IF parsed.fromState \notin DOMAIN editor.nodes
                   \/ parsed.nextState \notin DOMAIN editor.nodes
                THEN "Los estados de la transicion deben existir en el diagrama."
                ELSE IF Len(parsed.readSymbols) # expected
                THEN "La lectura debe tener un valor por cinta."
                ELSE IF Len(parsed.actions) # expected
                THEN "Las acciones deben tener un valor por cinta."
                ELSE IF target # NoKey
                        /\ edgeKey(parsed.fromState, parsed.nextState) # target
                THEN "Todas las lineas deben pertenecer a la flecha."
                ELSE ""
        IN /\ IF error # ""
              THEN /\ msg' = Message(error, "err")
                   /\ UNCHANGED editor
              ELSE /\ Len(addOrReplaceTransition(editor.transitions, parsed))
                         <= MaxEditorTransitions
                   /\ editor' = [editor EXCEPT
                         !.transitions = addOrReplaceTransition(@, parsed),
                         !.selectedTransitionKey =
                             edgeKey(parsed.fromState, parsed.nextState)]
                   /\ msg' = Message("Transicion guardada.", "ok")
           /\ UNCHANGED <<tmVars, field, ctl, faVars, pdaVars>>

\* click on clearTransition
ClearTransition ==
    /\ editor' = [editor EXCEPT !.selectedTransitionKey = NoKey]
    /\ UNCHANGED <<tmVars, field, ctl, msg, faVars, pdaVars>>

\* the user edits the tape count field; its change listener has not run yet
TapeCountInput ==
    \E value \in TapeCountValues :
        /\ value # field.tapeCount
        /\ field' = [field EXCEPT !.tapeCount = value]
        /\ UNCHANGED <<tmVars, editor, ctl, msg, faVars, pdaVars>>

\* the user edits the text of tape 1
EditTape1 ==
    \E text \in Tape1Texts :
        /\ text # field.tape1
        /\ field' = [field EXCEPT !.tape1 = text]
        /\ UNCHANGED <<tmVars, editor, ctl, msg, faVars, pdaVars>>

\* the change listener of the tape count field
TapeCountChange ==
    LET nextCount == getConfiguredTapeCount(field)
    IN /\ field' = [tapeCount |-> Parsed(nextCount),
                    tape1 |-> IF TapeTextOk(field) THEN field.tape1
                              ELSE DefaultFirstTape]
       /\ editor' = [editor EXCEPT
             !.transitions = autoAdjustTransitionsToTapeCount(@, nextCount)]
       /\ UNCHANGED <<tmVars, ctl, msg, faVars, pdaVars>>

\* click on addState
AddState ==
    /\ Cardinality(DOMAIN editor.nodes) < MaxStates
    /\ editor' = addState(editor, generateStateName(editor.nodes))
    /\ msg' = Message("Estado agregado en el centro.", "ok")
    /\ UNCHANGED <<tmVars, field, ctl, faVars, pdaVars>>

\* pointer down on a node of the diagram, or beside every node
SelectState ==
    \E name \in DOMAIN editor.nodes \cup {Null} :
        /\ editor' = [editor EXCEPT !.selectedState = name,
                                    !.selectedTransitionKey = NoKey]
        /\ editor' # editor
        /\ UNCHANGED <<tmVars, field, ctl, msg, faVars, pdaVars>>

\* click on deleteState
DeleteState ==
    /\ IF editor.selectedState \notin DOMAIN editor.nodes
       THEN /\ msg' = Message("Selecciona un estado para eliminar.", "warn")
            /\ UNCHANGED editor
       ELSE /\ editor' = deleteSelectedState(editor)
            /\ msg' = Message("Estado eliminado.", "ok")
    /\ UNCHANGED <<tmVars, field, ctl, faVars, pdaVars>>

\* the texts a user leaves in the preview and the tables a user fills in:
\* lists over the states of the example and the first added state; one holds
\* a line from an undeclared state, one a line of width 1 to the added
\* state, one the same key twice, one a row without its states
StateLists ==
    { <<>>,
      << EdTr("e0", <<"1", "1">>, <<Act("1", "S"), Act(Null, "L")>>, "e1"),
         EdTr("e1", <<"#", "#">>, <<Act(Null, "R"), Act(Null, "R")>>, "e0") >>,
      << EdTr("e1", <<"#", "#">>, <<Act(Null, "R"), Act(Null, "R")>>, "e0"),
         EdTr("e9", <<"1", "1">>, <<Act(Null, "R"), Act(Null, "R")>>, "e0") >>,
      << EdTr("e0", <<"#">>, <<Act("1", "R")>>, "e1") >>,
      << EdTr("e0", <<"1", "1">>, <<Act("1", "S"), Act(Null, "L")>>, "ef"),
         EdTr("e0", <<"1", "1">>, <<Act(Null, "R"), Act(Null, "R")>>, "e0") >>,
      << EdTr("e0", <<"1", "1">>, <<Act("1", "S"), Act(Null, "L")>>, "e0"),
         EdTr("", <<"1", "#">>, <<Act(Null, "R"), Act(Null, "R")>>, "") >> }

\* change of the transitions preview
ImportTransitions ==
    \E lines \in StateLists :
        /\ editor' = importTransitionsFromPreview(editor, field, lines)
        /\ msg' = IF listError(editor, field, lines) # ""
                  THEN Message(listError(editor, field, lines), "err")
                  ELSE Message("Transiciones actualizadas desde el editor de texto.",
                               "ok")
        /\ UNCHANGED <<tmVars, field, ctl, faVars, pdaVars>>

\* click on applyTransitionTable
ApplyTransitionTable ==
    \E rows \in StateLists :
        /\ editor' = applyTransitionsFromTable(editor, field, rows)
        /\ msg' = IF tableError(editor, field, rows) # ""
                  THEN Message(tableError(editor, field, rows), "err")
                  ELSE Message("Tabla de transiciones aplicada.", "ok")
        /\ UNCHANGED <<tmVars, field, ctl, faVars, pdaVars>>

\* click on step, when the button is enabled
StepClick ==
    /\ ~ctl.stepDisabled
    /\ \E after \in {executeStep(ctl, m, ret, msg)} :
          /\ ctl' = after.ctl
          /\ m' = after.m
          /\ ret' = after.ret
          /\ msg' = after.msg
    /\ UNCHANGED <<stepCalls, resetArg, writeCalls, editor, field, faVars, pdaVars>>

\* click on run, when the button is enabled
RunClick ==
    /\ ~ctl.runDisabled
    /\ ctl' = runMachine(ctl, m)
    /\ UNCHANGED <<tmVars, editor, field, msg, faVars, pdaVars>>

\* click on pause, when the button is enabled
PauseClick ==
    /\ ~ctl.pauseDisabled
    /\ ctl' = stopRun(ctl, m)
    /\ msg' = Message("Ejecucion en pausa.", "warn")
    /\ UNCHANGED <<tmVars, editor, field, faVars, pdaVars>>

\* the speed slider is moved
SpeedInput ==
    /\ ctl' = speedInput(ctl, m)
    /\ UNCHANGED <<tmVars, editor, field, msg, faVars, pdaVars>>

\* click on reset: resetMachine()
ResetClick ==
    /\ IF resetError(m, field) # ""
       THEN /\ msg' = Message(resetError(m, field),
                              IF m = <<>> THEN "warn" ELSE "err")
            /\ UNCHANGED <<tmVars, ctl>>
       ELSE /\ ctl' = stopRun(ctl, m)
            /\ m' = <<reset(m[1], readInitialTapesFromEditor(field))>>
            /\ resetArg' = <<readInitialTapesFromEditor(field)>>
            /\ msg' = Message("Cintas reiniciadas.", "ok")
            /\ UNCHANGED <<ret, stepCalls, writeCalls>>
    /\ UNCHANGED <<editor, field, faVars, pdaVars>>

\* a live interval timer fires: the callback runMachine gave to setInterval
TimerTick ==
    /\ ctl.timers # {}
    /\ IF m = <<>> \/ m[1].halted
       THEN /\ ctl' = stopRun(ctl, m)
            /\ UNCHANGED <<m, ret, msg>>
       ELSE \E after \in {executeStep(ctl, m, ret, msg)} :
               /\ ctl' = after.ctl
               /\ m' = after.m
               /\ ret' = after.ret
               /\ msg' = after.msg
    /\ UNCHANGED <<stepCalls, resetArg, writeCalls, editor, field, faVars, pdaVars>>

\* click on initialize
initializeMachine ==
    LET stopped == stopRun(ctl, m)
        built == buildMachineFromEditor(editor, field)
    IN /\ editor' = [editor EXCEPT !.transitions = built.transitions]
       /\ IF built.ok
          THEN /\ m' = <<NewMachine(built.definition, built.tapes)>>
               /\ ret' = <<NoResult>>
               /\ stepCalls' = <<0>>
               /\ writeCalls' = <<0>>
               /\ resetArg' = <<built.tapes>>
               /\ ctl' = setRunButtons(stopped, TRUE)
               /\ msg' = Message("Maquina inicializada correctamente.", "ok")
          ELSE /\ m' = <<>>
               /\ ret' = <<>>
               /\ stepCalls' = <<>>
               /\ writeCalls' = <<>>
               /\ resetArg' = <<>>
               /\ ctl' = setRunButtons(stopped, FALSE)
               /\ msg' = Message(built.error, "err")
       /\ UNCHANGED <<field, faVars, pdaVars>>

\* click on loadExample
loadExample ==
    /\ editor' = ExampleEditor
    /\ field' = ExampleField
    /\ m' = <<>>
    /\ ret' = <<>>
    /\ stepCalls' = <<>>
    /\ writeCalls' = <<>>
    /\ resetArg' = <<>>
    /\ ctl' = setRunButtons(ctl, FALSE)
    /\ msg' = Message("Ejemplo cargado. Inicializa para simular.", "ok")
    /\ UNCHANGED <<faVars, pdaVars>>

\* ------------------------------------------------------------- strings
\* A JavaScript string is the sequence of its characters; a state name, a
\* label, a word and a Map key are strings.
q0 == <<"q", "0">>
q1 == <<"q", "1">>
q2 == <<"q", "2">>
q3 == <<"q", "3">>
q4 == <<"q", "4">>
Eps == <<"e", "p", "s">>
Pipe == <<"|">>

\* Array.prototype.join
RECURSIVE Join(_, _)
Join(parts, sep) ==
    IF parts = <<>> THEN <<>>
    ELSE IF Len(parts) = 1 THEN parts[1]
    ELSE parts[1] \o sep \o Join(Tail(parts), sep)

\* String.prototype.split with a separator of one character
RECURSIVE Split(_, _)
Split(s, sep) ==
    IF \A i \in DOMAIN s : s[i] # sep THEN <<s>>
    ELSE LET i == CHOOSE i \in DOMAIN s :
                      s[i] = sep /\ \A j \in 1..(i - 1) : s[j] # sep
         IN <<SubSeq(s, 1, i - 1)>> \o Split(SubSeq(s, i + 1, Len(s)), sep)

\* String.prototype.trim
RECURSIVE Trim(_)
Trim(s) ==
    IF s = <<>> THEN s
    ELSE IF Head(s) = " " THEN Trim(Tail(s))
    ELSE IF s[Len(s)] = " " THEN Trim(SubSeq(s, 1, Len(s) - 1))
    ELSE s

\* a startsWith that compares the first character of the label only
StartsWithFirstChar(word, label, pos) ==
    /\ pos + Len(label) <= Len(word)
    /\ word[pos + 1] = label[1]

\* word.startsWith(label, pos)
StartsWith(word, label, pos) ==
    /\ pos + Len(label) <= Len(word)
    /\ SubSeq(word, pos + 1, pos + Len(label)) = label

\* String(n) of a non-negative integer
RECURSIVE Decimal(_)
Decimal(n) ==
    IF n < 10 THEN <<ToString(n)>>
    ELSE Decimal(n \div 10) \o <<ToString(n % 10)>>

\* the lower-case form of the letters the /i match of normalizeEpsilonLabel
\* can meet
LowerCase(s) ==
    [i \in DOMAIN s |->
        CASE s[i] = "E" -> "e" [] s[i] = "P" -> "p" [] s[i] = "S" -> "s"
          [] s[i] = "I" -> "i" [] s[i] = "L" -> "l" [] s[i] = "O" -> "o"
          [] s[i] = "N" -> "n" [] OTHER -> s[i]]

normalizeEpsilonLabel(labelRaw) ==
    LET label == Trim(labelRaw)
    IN IF \/ label = <<>>
          \/ LowerCase(label) = Eps
          \/ LowerCase(label) = <<"e", "p", "s", "i", "l", "o", "n">>
          \/ label = <<"ε">>
       THEN Eps
       ELSE label

\* f(v), with v worked out once however often f uses it
With(v, f(_)) == CHOOSE r \in {f(x) : x \in {v}} : TRUE

\* ------------------------------------------------- Map of key -> Set
\* A Map from key to Set is the sequence of its entries in insertion order;
\* each Set is the sequence of its members in insertion order.
MapHas(map, key) == \E i \in DOMAIN map : map[i].key = key

MapGet(map, key) ==
    IF MapHas(map, key)
    THEN map[CHOOSE i \in DOMAIN map : map[i].key = key].dests
    ELSE <<>>

SetAdd(members, x) ==
    IF x \in Range(members) THEN members ELSE Append(members, x)

\* if (!map.has(key)) map.set(key, new Set()); map.get(key).add(to)
MapAdd(map, key, to) ==
    IF MapHas(map, key)
    THEN [i \in DOMAIN map |->
            IF map[i].key = key
            THEN [map[i] EXCEPT !.dests = SetAdd(@, to)]
            ELSE map[i]]
    ELSE Append(map, [key |-> key, dests |-> <<to>>])

RECURSIVE MapAddAll(_, _, _)
MapAddAll(map, key, destinations) ==
    IF destinations = <<>> THEN map
    ELSE MapAddAll(MapAdd(map, key, Head(destinations)), key, Tail(destinations))

faKey(from, symbol) == from \o Pipe \o symbol

\* const [from, label] = key.split("|")
keyFrom(key) == Split(key, "|")[1]
keyLabel(key) == Split(key, "|")[2]

\* --------------------------------------------------------- FA: building
\* A line of the transitions text after its split on "->" and on commas:
\* from, symbolRaw and the destinations that are left after filter(Boolean).
Line(from, symbolRaw, destinations) ==
    [from |-> from, symbolRaw |-> symbolRaw, destinations |-> destinations]

FaThrown(error) ==
    [ok |-> FALSE, error |-> error, map |-> <<>>]

\* parseFaTransitions(raw): the Map it returns, or the error it throws
RECURSIVE parseFaLines(_, _)
parseFaLines(map, lines) ==
    IF lines = <<>> THEN [ok |-> TRUE, error |-> "", map |-> map]
    ELSE LET line == Head(lines)
             symbol == normalizeEpsilonLabel(line.symbolRaw)
         IN IF line.from = <<>>
            THEN FaThrown("faltan origen o simbolo.")
            ELSE IF line.destinations = <<>>
            THEN FaThrown("falta estado destino.")
            ELSE parseFaLines(
                    MapAddAll(map, faKey(line.from, symbol), line.destinations),
                    Tail(lines))

parseFaTransitions(lines) == parseFaLines(<<>>, lines)

NoModel ==
    [states |-> {}, alphabet |-> {}, startState |-> <<>>, acceptStates |-> {},
     transitions |-> <<>>]

\* buildFaModel(): the model it returns, or the error it throws
buildFaModel(form) ==
    LET states == Range(form.states)
        alphabet == {normalizeEpsilonLabel(s) : s \in Range(form.alphabet)}
        startState == Trim(form.startState)
        acceptStates == Range(form.acceptStates)
        parsed == parseFaTransitions(form.transitions)
        transitions == parsed.map
        badFrom(i) == keyFrom(transitions[i].key) \notin states
        badDest(i) == \E dest \in Range(transitions[i].dests) : dest \notin states
        bad == {i \in DOMAIN transitions : badFrom(i) \/ badDest(i)}
        firstBad == CHOOSE i \in bad : \A j \in bad : i <= j
        thrown(error) == [ok |-> FALSE, error |-> error, model |-> NoModel]
    IN IF ~parsed.ok THEN thrown(parsed.error)
       ELSE IF startState = <<>> \/ startState \notin states
       THEN thrown("Estado inicial invalido en AF.")
       ELSE IF \E s \in acceptStates : s \notin states
       THEN thrown("Estado de aceptacion invalido")
       ELSE IF bad # {}
       THEN thrown(IF badFrom(firstBad)
                   THEN "Estado origen invalido en transicion"
                   ELSE "Estado destino invalido en transicion")
       ELSE [ok |-> TRUE, error |-> "",
             model |->
                [states |-> states,
                 alphabet |-> alphabet \cup
                     ({keyLabel(transitions[i].key) : i \in DOMAIN transitions}
                         \ {Eps}),
                 startState |-> startState,
                 acceptStates |-> acceptStates,
                 transitions |-> transitions]]

\* the FA form after loadFaExample()
FaExampleForm ==
    [states |-> <<q0, q1, q2, q3, q4>>,
     alphabet |-> << <<"a">>, <<"b">> >>,
     startState |-> q0,
     acceptStates |-> <<q4>>,
     transitions |->
        << Line(q0, Eps, <<q1>>),
           Line(q1, <<"a", "b">>, <<q2>>),
           Line(q1, <<"a">>, <<q3>>),
           Line(q3, <<"b">>, <<q4>>),
           Line(q2, Eps, <<q4>>) >>,
     word |-> <<"a", "b">>]

\* ------------------------------------------------------ FA: evaluateFA
Cfg(state, pos) == [state |-> state, pos |-> pos]

\* `${cfg.state}|${cfg.pos}`
cfgKey(cfg) == cfg.state \o Pipe \o Decimal(cfg.pos)

\* the transitionsList evaluateFA fills from model.transitions
RECURSIVE transitionsListFrom(_)
transitionsListFrom(entries) ==
    IF entries = <<>> THEN <<>>
    ELSE LET entry == Head(entries)
         IN [i \in DOMAIN entry.dests |->
                [from |-> keyFrom(entry.key), label |-> keyLabel(entry.key),
                 to |-> entry.dests[i]]]
            \o transitionsListFrom(Tail(entries))

\* a pass that matches the label "eps" against the word like any other label
RECURSIVE pushesOfEpsLiteral(_, _, _)
pushesOfEpsLiteral(list, cfg, word) ==
    IF list = <<>> THEN <<>>
    ELSE LET t == Head(list)
             rest == pushesOfEpsLiteral(Tail(list), cfg, word)
         IN IF t.from # cfg.state THEN rest
            ELSE IF StartsWith(word, t.label, cfg.pos)
            THEN <<Cfg(t.to, cfg.pos + Len(t.label))>> \o rest
            ELSE rest

\* what one pass of transitionsList.forEach pushes for cfg, in order
RECURSIVE pushesOf(_, _, _)
pushesOf(list, cfg, word) ==
    IF list = <<>> THEN <<>>
    ELSE LET t == Head(list)
             rest == pushesOf(Tail(list), cfg, word)
         IN IF t.from # cfg.state THEN rest
            ELSE IF t.label = Eps THEN <<Cfg(t.to, cfg.pos)>> \o rest
            ELSE IF StartsWith(word, t.label, cfg.pos)
            THEN <<Cfg(t.to, cfg.pos + Len(t.label))>> \o rest
            ELSE rest

\* the locals of evaluateFA when the while loop is first reached; expanded
\* lists the configurations that got past the seen test, in order
evaluateFAStart(model, word) ==
    [pc |-> "loop", model |-> model, word |-> word,
     transitionsList |-> transitionsListFrom(model.transitions),
     q |-> <<Cfg(model.startState, 0)>>, seen |-> {}, frontier |-> <<>>,
     accepted |-> FALSE, expanded |-> <<>>]

evaluateFAIdle ==
    [pc |-> "idle", model |-> NoModel, word |-> <<>>, transitionsList |-> <<>>,
     q |-> <<>>, seen |-> {}, frontier |-> <<>>, accepted |-> FALSE,
     expanded |-> <<>>]

\* the exit of the while loop: its test, evaluated after the body
evaluateFAExit(run) == [run EXCEPT !.pc = IF run.q = <<>> THEN "done" ELSE "loop"]

\* a pass through the body that leaves out the seen test
evaluateFAStepNoSeenTest(run) ==
    LET cfg == Head(run.q)
        marked == [run EXCEPT !.q = Tail(@),
                              !.seen = @ \cup {cfgKey(cfg)},
                              !.frontier = SetAdd(@, cfg.state),
                              !.expanded = Append(@, cfg)]
    IN IF cfg.pos = Len(run.word) /\ cfg.state \in run.model.acceptStates
       THEN [marked EXCEPT !.accepted = TRUE, !.pc = "done"]
       ELSE evaluateFAExit(
               [marked EXCEPT !.q = @ \o
                   pushesOf(run.transitionsList, cfg, run.word)])

\* a pass that does not expand a configuration at the end of the word
evaluateFAStepEndStops(run) ==
    LET cfg == Head(run.q)
        shifted == [run EXCEPT !.q = Tail(@)]
    IN IF cfgKey(cfg) \in run.seen
       THEN evaluateFAExit(shifted)
       ELSE LET marked == [shifted EXCEPT !.seen = @ \cup {cfgKey(cfg)},
                                          !.frontier = SetAdd(@, cfg.state),
                                          !.expanded = Append(@, cfg)]
            IN IF cfg.pos = Len(run.word)
               THEN IF cfg.state \in run.model.acceptStates
                    THEN [marked EXCEPT !.accepted = TRUE, !.pc = "done"]
                    ELSE evaluateFAExit(marked)
               ELSE evaluateFAExit(
                       [marked EXCEPT !.q = @ \o
                           pushesOf(run.transitionsList, cfg, run.word)])

\* one pass through the body of the while loop, with the loop test after it
evaluateFAStep(run) ==
    LET cfg == Head(run.q)
        shifted == [run EXCEPT !.q = Tail(@)]
    IN IF cfgKey(cfg) \in run.seen
       THEN evaluateFAExit(shifted)
       ELSE LET marked == [shifted EXCEPT !.seen = @ \cup {cfgKey(cfg)},
                                          !.frontier = SetAdd(@, cfg.state),
                                          !.expanded = Append(@, cfg)]
            IN IF cfg.pos = Len(run.word) /\ cfg.state \in run.model.acceptStates
               THEN [marked EXCEPT !.accepted = TRUE, !.pc = "done"]
               ELSE evaluateFAExit(
                       [marked EXCEPT !.q = @ \o
                           pushesOf(run.transitionsList, cfg, run.word)])

RECURSIVE evaluateFALoop(_)
evaluateFALoop(run) ==
    IF run.pc = "done" THEN run ELSE evaluateFALoop(evaluateFAStep(run))

\* evaluateFA(model, word): the object it returns
evaluateFA(model, word) ==
    LET run == evaluateFALoop(evaluateFAStart(model, word))
    IN [accepted |-> run.accepted, detail |-> run.frontier]

\* -------------------------------------------------------- PDA: building
qf == <<"q", "f">>
Missing == <<Null>>

\* A line of the PDA transitions text after its splits: the five fields; push
\* is Missing when the right side has no comma.
PdaLine(state, inputSym, stackTop, nextState, push) ==
    [state |-> state, inputSym |-> inputSym, stackTop |-> stackTop,
     nextState |-> nextState, push |-> push]

\* parsePdaTransitions(raw): does some line make it throw?
parsePdaThrows(lines) ==
    \E i \in DOMAIN lines :
        \/ lines[i].state = <<>>
        \/ lines[i].inputSym = <<>>
        \/ lines[i].stackTop = <<>>
        \/ lines[i].nextState = <<>>
        \/ lines[i].push = Missing

NoPdaModel ==
    [states |-> {}, startState |-> <<>>, acceptStates |-> {},
     initialStack |-> <<>>, transitions |-> <<>>]

\* buildPdaModel(): the model it returns, or the error it throws
buildPdaModel(form) ==
    LET states == Range(form.states)
        startState == Trim(form.startState)
    IN IF parsePdaThrows(form.transitions)
       THEN [ok |-> FALSE, error |-> "faltan campos PDA.", model |-> NoPdaModel]
       ELSE IF startState \notin states
       THEN [ok |-> FALSE, error |-> "Estado inicial invalido en PDA.",
             model |-> NoPdaModel]
       ELSE [ok |-> TRUE, error |-> "",
             model |->
                [states |-> states,
                 startState |-> startState,
                 acceptStates |-> Range(form.acceptStates),
                 initialStack |-> Trim(form.initialStack),
                 transitions |-> form.transitions]]

\* the PDA form after loadPdaExample()
PdaExampleForm ==
    [states |-> <<q0, qf>>,
     startState |-> q0,
     acceptStates |-> <<qf>>,
     initialStack |-> <<"Z">>,
     transitions |->
        << PdaLine(q0, <<"(">>, <<"Z">>, q0, <<"(", "Z">>),
           PdaLine(q0, <<"(">>, <<"(">>, q0, <<"(", "(">>),
           PdaLine(q0, <<")">>, <<"(", "(">>, q0, Eps),
           PdaLine(q0, Eps, <<"Z">>, qf, <<"Z">>) >>,
     word |-> <<"(", "(", ")", ")", "(", ")">>]

\* ---------------------------------------------------- PDA: evaluatePDA
maxSteps == 20000

PdaCfg(state, pos, stack) == [state |-> state, pos |-> pos, stack |-> stack]

\* `${cfg.state}|${cfg.pos}|${cfg.stack.join("")}`
pdaCfgKey(cfg) ==
    cfg.state \o Pipe \o Decimal(cfg.pos) \o Pipe \o Join(cfg.stack, <<>>)

\* the characters of t.push, pushed from the first to the last
RECURSIVE pushForward(_, _)
pushForward(stack, push) ==
    IF push = <<>> THEN stack
    ELSE pushForward(Append(stack, <<push[1]>>), Tail(push))

\* the characters of t.push, pushed from the last to the first
RECURSIVE pushReversed(_, _)
pushReversed(stack, push) ==
    IF push = <<>> THEN stack
    ELSE pushReversed(Append(stack, <<push[Len(push)]>>),
                      SubSeq(push, 1, Len(push) - 1))

\* the configuration transition t pushes on the queue for cfg
pdaSuccessor(t, cfg) ==
    LET popped == IF t.stackTop # Eps
                  THEN SubSeq(cfg.stack, 1, Len(cfg.stack) - 1)
                  ELSE cfg.stack
    IN PdaCfg(t.nextState,
              IF t.inputSym = Eps THEN cfg.pos ELSE cfg.pos + 1,
              IF t.push # Eps /\ t.push # <<>>
              THEN pushReversed(popped, t.push)
              ELSE popped)

pdaApplies(t, cfg, input) ==
    LET top == IF cfg.stack # <<>> THEN cfg.stack[Len(cfg.stack)] ELSE Eps
    IN /\ t.state = cfg.state
       /\ \/ t.inputSym = Eps
          \/ cfg.pos < Len(input) /\ t.inputSym = <<input[cfg.pos + 1]>>
       /\ t.stackTop = Eps \/ top = t.stackTop

\* what one pass of model.transitions.forEach pushes for cfg, in order
pdaPushesOf(list, cfg, input) ==
    LET applies(t) == pdaApplies(t, cfg, input)
        taken == SelectSeq(list, applies)
    IN [i \in DOMAIN taken |-> pdaSuccessor(taken[i], cfg)]

\* the locals of evaluatePDA when the while loop is first reached; visited
\* lists the configurations that got past the seen test, in order
evaluatePDAStart(model, input) ==
    [pc |-> "loop", model |-> model, input |-> input,
     queue |-> <<PdaCfg(model.startState, 0, <<model.initialStack>>)>>,
     seen |-> {}, steps |-> 0, accepted |-> FALSE, visited |-> <<>>]

evaluatePDAIdle ==
    [pc |-> "idle", model |-> NoPdaModel, input |-> <<>>, queue |-> <<>>,
     seen |-> {}, steps |-> 0, accepted |-> FALSE, visited |-> <<>>]

\* the test of the while loop
evaluatePDAExit(run) ==
    [run EXCEPT !.pc = IF run.queue # <<>> /\ run.steps < maxSteps
                       THEN "loop" ELSE "done"]

\* a pass that expands the configuration it takes off the queue whether or
\* not its key is in seen
evaluatePDAStepNoSeenTest(run) ==
    LET cfg == Head(run.queue)
        marked == [run EXCEPT !.queue = Tail(@), !.steps = @ + 1,
                              !.seen = @ \cup {pdaCfgKey(cfg)},
                              !.visited = Append(@, cfg)]
    IN IF cfg.pos = Len(run.input) /\ cfg.state \in run.model.acceptStates
       THEN [marked EXCEPT !.accepted = TRUE, !.pc = "done"]
       ELSE evaluatePDAExit(
               [marked EXCEPT !.queue = @ \o
                   pdaPushesOf(run.model.transitions, cfg, run.input)])

\* one pass through the body of the while loop, with the loop test after it
evaluatePDAStep(run) ==
    LET cfg == Head(run.queue)
        shifted == [run EXCEPT !.queue = Tail(@), !.steps = @ + 1]
    IN IF pdaCfgKey(cfg) \in run.seen
       THEN evaluatePDAExit(shifted)
       ELSE LET marked == [shifted EXCEPT !.seen = @ \cup {pdaCfgKey(cfg)},
                                          !.visited = Append(@, cfg)]
            IN IF cfg.pos = Len(run.input) /\ cfg.state \in run.model.acceptStates
               THEN [marked EXCEPT !.accepted = TRUE, !.pc = "done"]
               ELSE evaluatePDAExit(
                       [marked EXCEPT !.queue = @ \o
                           pdaPushesOf(run.model.transitions, cfg, run.input)])

\* up to n passes of the while loop, the first half of them and then the rest
RECURSIVE evaluatePDAPasses(_, _)
evaluatePDAPasses(run, n) ==
    IF run.pc = "done" \/ n = 0 THEN run
    ELSE IF n = 1 THEN evaluatePDAStep(run)
    ELSE LET rest(half) == evaluatePDAPasses(half, n - n \div 2)
         IN With(evaluatePDAPasses(run, n \div 2), rest)

\* the while loop of evaluatePDA from its first test to its end: steps starts
\* at 0, rises by one in every pass and stays below maxSteps in the loop
evaluatePDALoop(run) == evaluatePDAPasses(run, maxSteps)

\* what evaluatePDA returns when the loop has ended in run; the state named
\* in the detail of an acceptance is left out
evaluatePDAReturn(run) ==
    IF run.accepted THEN [accepted |-> TRUE, detail |-> "Aceptada en"]
    ELSE [accepted |-> FALSE,
          detail |-> "No se encontro configuracion de aceptacion."]

\* evaluatePDA(model, input)
evaluatePDA(model, input) ==
    evaluatePDAReturn(evaluatePDALoop(evaluatePDAStart(model, input)))

\* ------------------------------------------ FA: expandLabelsToUnitNFA
\* `__aux${aux}`
auxName(n) == <<"_", "_", "a", "u", "x">> \o Decimal(n)

\* addTransition(from, symbol, to) on the locals transitions and alphabet
addTransition(acc, from, symbol, to) ==
    [acc EXCEPT !.transitions = MapAdd(@, faKey(from, symbol), to),
                !.alphabet = IF symbol # Eps THEN SetAdd(@, symbol) ELSE @]

\* the for loop over the characters of a label, from its i-th character on
RECURSIVE expandChain(_, _, _, _, _)
expandChain(acc, prev, label, i, to) ==
    IF i > Len(label) THEN acc
    ELSE LET isLast == i = Len(label)
             next == IF isLast THEN to ELSE auxName(acc.aux)
             named == [acc EXCEPT !.aux = IF isLast THEN @ ELSE @ + 1,
                                  !.states = @ \cup {next}]
         IN expandChain(addTransition(named, prev, <<label[i]>>, next),
                        next, label, i + 1, to)

\* an expansion that keeps a label of several characters on one transition
expandOneWholeLabel(acc, t) ==
    addTransition(acc, t.from, normalizeEpsilonLabel(t.label), t.to)

\* the body of destSet.forEach for one destination
expandOne(acc, t) ==
    LET label == normalizeEpsilonLabel(t.label)
    IN IF label = Eps THEN addTransition(acc, t.from, Eps, t.to)
       ELSE IF Len(label) <= 1 THEN addTransition(acc, t.from, label, t.to)
       ELSE expandChain(acc, t.from, label, 1, t.to)

RECURSIVE expandAll(_, _)
expandAll(acc, list) ==
    IF list = <<>> THEN acc ELSE expandAll(expandOne(acc, Head(list)), Tail(list))

\* expandLabelsToUnitNFA(model): the model it returns; alphabet is a Set in
\* insertion order
expandLabelsToUnitNFA(model) ==
    LET acc == expandAll([states |-> model.states, transitions |-> <<>>,
                          alphabet |-> <<>>, aux |-> 0],
                         transitionsListFrom(model.transitions))
    IN [states |-> acc.states, alphabet |-> acc.alphabet,
        startState |-> model.startState, acceptStates |-> model.acceptStates,
        transitions |-> acc.transitions]

\* ------------------------------------------------- FA: epsilonClosure
\* locals whose closure starts without the input states
epsilonClosureStartEmpty(transitions, inputStates) ==
    [pc |-> IF inputStates = <<>> THEN "done" ELSE "loop",
     transitions |-> transitions, inputStates |-> inputStates,
     closure |-> <<>>, stack |-> inputStates]

\* the locals of epsilonClosure when the while loop is first reached; a Set
\* is the sequence of its members in insertion order
epsilonClosureStart(transitions, inputStates) ==
    [pc |-> IF inputStates = <<>> THEN "done" ELSE "loop",
     transitions |-> transitions, inputStates |-> inputStates,
     closure |-> inputStates, stack |-> inputStates]

epsilonClosureIdle ==
    [pc |-> "idle", transitions |-> <<>>, inputStates |-> <<>>,
     closure |-> <<>>, stack |-> <<>>]

\* next.forEach: add and push the members of next that closure lacks
RECURSIVE closureVisit(_, _)
closureVisit(run, next) ==
    IF next = <<>> THEN run
    ELSE IF Head(next) \in Range(run.closure) THEN closureVisit(run, Tail(next))
    ELSE closureVisit([run EXCEPT !.closure = Append(@, Head(next)),
                                  !.stack = Append(@, Head(next))],
                      Tail(next))

\* a pass that adds the members of next to closure without pushing them
epsilonClosureStepShallow(run) ==
    LET state == run.stack[Len(run.stack)]
        popped == [run EXCEPT !.stack = SubSeq(@, 1, Len(@) - 1)]
        after == closureVisit(popped, MapGet(run.transitions, faKey(state, Eps)))
        kept == [after EXCEPT !.stack = popped.stack]
    IN [kept EXCEPT !.pc = IF kept.stack = <<>> THEN "done" ELSE "loop"]

\* one pass through the body of the while loop, with the loop test after it
epsilonClosureStep(run) ==
    LET state == run.stack[Len(run.stack)]
        popped == [run EXCEPT !.stack = SubSeq(@, 1, Len(@) - 1)]
        after == closureVisit(popped, MapGet(run.transitions, faKey(state, Eps)))
    IN [after EXCEPT !.pc = IF after.stack = <<>> THEN "done" ELSE "loop"]

RECURSIVE epsilonClosureLoop(_)
epsilonClosureLoop(run) ==
    IF run.pc = "done" THEN run ELSE epsilonClosureLoop(epsilonClosureStep(run))

\* epsilonClosure(transitions, inputStates): the Set it returns
epsilonClosure(transitions, inputStates) ==
    epsilonClosureLoop(epsilonClosureStart(transitions, inputStates)).closure

\* -------------------------------------------------- FA: determinizeNFA
\* the character U+2205, the empty set sign
EmptySetSign == "U+2205"

\* the UTF-16 code unit of the characters the forms use
CodeUnit(c) ==
    CASE c = "&" -> 38 [] c = "0" -> 48 [] c = "1" -> 49 [] c = "2" -> 50
      [] c = "3" -> 51 [] c = "4" -> 52 [] c = "9" -> 57 [] c = "E" -> 69
      [] c = "_" -> 95 [] c = "a" -> 97 [] c = "b" -> 98 [] c = "e" -> 101
      [] c = "p" -> 112 [] c = "q" -> 113 [] c = "s" -> 115 [] c = "u" -> 117
      [] c = "x" -> 120 [] c = "|" -> 124 [] c = "ε" -> 949 [] c = EmptySetSign -> 8709

\* s sorts before t in Array.prototype.sort without a comparator
RECURSIVE SortsBefore(_, _)
SortsBefore(s, t) ==
    IF t = <<>> THEN FALSE
    ELSE IF s = <<>> THEN TRUE
    ELSE IF Head(s) = Head(t) THEN SortsBefore(Tail(s), Tail(t))
    ELSE CodeUnit(Head(s)) < CodeUnit(Head(t))

\* [...set].sort()
RECURSIVE Sorted(_)
Sorted(names) ==
    IF names = {} THEN <<>>
    ELSE LET first == CHOOSE n \in names :
                         \A other \in names \ {n} : SortsBefore(n, other)
         IN <<first>> \o Sorted(names \ {first})

\* setKey(set) = [...set].sort().join("&") || EmptySetSign
setKey(subset) ==
    IF Join(Sorted(Range(subset)), <<"&">>) = <<>> THEN <<EmptySetSign>>
    ELSE Join(Sorted(Range(subset)), <<"&">>)

\* Map.prototype.set on a Map from key to value, kept in insertion order
MapPut(map, key, value) ==
    IF \E i \in DOMAIN map : map[i].key = key
    THEN [i \in DOMAIN map |->
            IF map[i].key = key THEN [key |-> key, value |-> value] ELSE map[i]]
    ELSE Append(map, [key |-> key, value |-> value])

Undefined == <<Null>>

\* Map.prototype.get on such a Map
MapValue(map, key) ==
    IF \E i \in DOMAIN map : map[i].key = key
    THEN map[CHOOSE i \in DOMAIN map : map[i].key = key].value
    ELSE Undefined

\* moveSet: the members of next, for each state of currentSet in order
RECURSIVE moveSetOf(_, _, _, _)
moveSetOf(transitions, currentSet, symbol, moveSet) ==
    IF currentSet = <<>> THEN moveSet
    ELSE LET next == MapGet(transitions, faKey(Head(currentSet), symbol))
             RECURSIVE addAll(_, _)
             addAll(members, more) ==
                 IF more = <<>> THEN members
                 ELSE addAll(SetAdd(members, Head(more)), Tail(more))
         IN moveSetOf(transitions, Tail(currentSet), symbol, addAll(moveSet, next))

\* alphabet.forEach that stores no transition into the empty subset
RECURSIVE determinizeSymbolsNoDeadState(_, _, _, _)
determinizeSymbolsNoDeadState(nfaUnit, acc, currentSet, symbols) ==
    IF symbols = <<>> THEN acc
    ELSE LET symbol == Head(symbols)
             targetSet == epsilonClosure(nfaUnit.transitions,
                             moveSetOf(nfaUnit.transitions, currentSet, symbol, <<>>))
             targetKey == setKey(targetSet)
             linked == [acc EXCEPT
                          !.transitions =
                             MapPut(@, faKey(setKey(currentSet), symbol), targetKey),
                          !.discovered = @ \cup {[key |-> targetKey,
                                                  members |-> Range(targetSet)]}]
         IN determinizeSymbolsNoDeadState(nfaUnit,
               IF targetSet = <<>> THEN acc
               ELSE IF targetKey \notin acc.seen
               THEN [linked EXCEPT !.seen = @ \cup {targetKey},
                                   !.states = MapPut(@, targetKey, targetSet),
                                   !.queue = Append(@, targetSet)]
               ELSE linked,
               currentSet, Tail(symbols))

\* alphabet.forEach for one currentSet, from the given symbols on; discovered
\* records every targetSet computed, with the targetKey it was given
RECURSIVE determinizeSymbols(_, _, _, _)
determinizeSymbols(nfaUnit, acc, currentSet, symbols) ==
    IF symbols = <<>> THEN acc
    ELSE LET symbol == Head(symbols)
             targetSet == epsilonClosure(nfaUnit.transitions,
                             moveSetOf(nfaUnit.transitions, currentSet, symbol, <<>>))
             targetKey == setKey(targetSet)
             linked == [acc EXCEPT
                          !.transitions =
                             MapPut(@, faKey(setKey(currentSet), symbol), targetKey),
                          !.discovered = @ \cup {[key |-> targetKey,
                                                  members |-> Range(targetSet)]}]
         IN determinizeSymbols(nfaUnit,
               IF targetKey \notin acc.seen
               THEN [linked EXCEPT !.seen = @ \cup {targetKey},
                                   !.states = MapPut(@, targetKey, targetSet),
                                   !.queue = Append(@, targetSet)]
               ELSE linked,
               currentSet, Tail(symbols))

\* the while loop of determinizeNFA
RECURSIVE determinizeLoop(_, _, _)
determinizeLoop(nfaUnit, alphabet, acc) ==
    IF acc.queue = <<>> THEN acc
    ELSE determinizeLoop(nfaUnit, alphabet,
            determinizeSymbols(nfaUnit, [acc EXCEPT !.queue = Tail(@)],
                               Head(acc.queue), alphabet))

\* determinizeNFA(nfaUnit): the DFA it returns; subsets is its local Map
\* states, from DFA state name to the subset stored under it
determinizeNFA(nfaUnit) ==
    LET notEps(a) == a # Eps
        alphabet == SelectSeq(nfaUnit.alphabet, notEps)
        startSet == epsilonClosure(nfaUnit.transitions, <<nfaUnit.startState>>)
        acc == determinizeLoop(nfaUnit, alphabet,
                  [queue |-> <<startSet>>, seen |-> {setKey(startSet)},
                   states |-> <<[key |-> setKey(startSet), value |-> startSet]>>,
                   transitions |-> <<>>,
                   discovered |-> {[key |-> setKey(startSet),
                                    members |-> Range(startSet)]}])
        accepting(entry) ==
            \E s \in Range(entry.value) : s \in nfaUnit.acceptStates
        keys(entries) == [i \in DOMAIN entries |-> entries[i].key]
    IN [states |-> keys(acc.states),
        alphabet |-> alphabet,
        startState |-> setKey(startSet),
        acceptStates |-> keys(SelectSeq(acc.states, accepting)),
        transitions |-> acc.transitions,
        subsets |-> acc.states,
        discovered |-> acc.discovered]

\* ----------------------------------------------------- FA: minimizeDFA
\* alphabet.forEach for the state s taken from the queue of the first loop
RECURSIVE reachSymbols(_, _, _, _)
reachSymbols(dfa, acc, s, symbols) ==
    IF symbols = <<>> THEN acc
    ELSE LET n == MapValue(dfa.transitions, faKey(s, Head(symbols)))
         IN reachSymbols(dfa,
               IF n # Undefined /\ n # <<>> /\ n \notin Range(acc.reachable)
               THEN [acc EXCEPT !.reachable = Append(@, n), !.queue = Append(@, n)]
               ELSE acc,
               s, Tail(symbols))

\* the first while loop of minimizeDFA
RECURSIVE reachLoop(_, _)
reachLoop(dfa, acc) ==
    IF acc.queue = <<>> THEN acc.reachable
    ELSE reachLoop(dfa, reachSymbols(dfa, [acc EXCEPT !.queue = Tail(@)],
                                     Head(acc.queue), dfa.alphabet))

\* String(n) of an integer
NumberText(n) == IF n < 0 THEN <<"-">> \o Decimal(-n) ELSE Decimal(n)

\* partitions.findIndex((p) => p.has(t))
findIndex(partitions, t) ==
    IF \E i \in DOMAIN partitions : t \in Range(partitions[i])
    THEN (CHOOSE i \in DOMAIN partitions :
             /\ t \in Range(partitions[i])
             /\ \A j \in 1..(i - 1) : t \notin Range(partitions[j])) - 1
    ELSE -1

\* the signature of a state under the current partitions
signature(dfa, partitions, state) ==
    Join([i \in DOMAIN dfa.alphabet |->
             NumberText(findIndex(partitions,
                 MapValue(dfa.transitions, faKey(state, dfa.alphabet[i]))))],
         Pipe)

\* part.forEach: the Map groups, from signature to the Set of its states
RECURSIVE groupsOf(_, _, _, _)
groupsOf(dfa, partitions, members, groups) ==
    IF members = <<>> THEN groups
    ELSE LET add(sig) == MapAdd(groups, sig, Head(members))
             rest(added) == groupsOf(dfa, partitions, Tail(members), added)
         IN With(With(signature(dfa, partitions, Head(members)), add), rest)

\* a round whose changed tells of the last part only
RECURSIVE refinePartsLastPartDecides(_, _, _, _)
refinePartsLastPartDecides(dfa, partitions, parts, acc) ==
    IF parts = <<>> THEN acc
    ELSE LET round(groups) ==
                 [newParts |-> acc.newParts \o
                                  [i \in DOMAIN groups |-> groups[i].dests],
                  changed |-> Len(groups) > 1]
             rest(sofar) == refinePartsLastPartDecides(dfa, partitions, Tail(parts), sofar)
         IN With(With(groupsOf(dfa, partitions, Head(parts), <<>>), round), rest)

\* a round whose changed is set by any group at all
RECURSIVE refinePartsAnyGroupChanges(_, _, _, _)
refinePartsAnyGroupChanges(dfa, partitions, parts, acc) ==
    IF parts = <<>> THEN acc
    ELSE LET round(groups) ==
                 [newParts |-> acc.newParts \o
                                  [i \in DOMAIN groups |-> groups[i].dests],
                  changed |-> acc.changed \/ Len(groups) >= 1]
             rest(sofar) == refinePartsAnyGroupChanges(dfa, partitions, Tail(parts), sofar)
         IN With(With(groupsOf(dfa, partitions, Head(parts), <<>>), round), rest)

\* a round that keeps the first group of each part only
RECURSIVE refinePartsFirstGroupOnly(_, _, _, _)
refinePartsFirstGroupOnly(dfa, partitions, parts, acc) ==
    IF parts = <<>> THEN acc
    ELSE LET round(groups) ==
                 [newParts |-> Append(acc.newParts, groups[1].dests),
                  changed |-> acc.changed \/ Len(groups) > 1]
             rest(sofar) == refinePartsFirstGroupOnly(dfa, partitions, Tail(parts), sofar)
         IN With(With(groupsOf(dfa, partitions, Head(parts), <<>>), round), rest)

\* partitions.forEach of one round: newParts and changed
RECURSIVE refineParts(_, _, _, _)
refineParts(dfa, partitions, parts, acc) ==
    IF parts = <<>> THEN acc
    ELSE LET round(groups) ==
                 [newParts |-> acc.newParts \o
                                  [i \in DOMAIN groups |-> groups[i].dests],
                  changed |-> acc.changed \/ Len(groups) > 1]
             rest(sofar) == refineParts(dfa, partitions, Tail(parts), sofar)
         IN With(With(groupsOf(dfa, partitions, Head(parts), <<>>), round), rest)

\* the second while loop of minimizeDFA
RECURSIVE refineLoop(_, _)
refineLoop(dfa, partitions) ==
    LET round == refineParts(dfa, partitions, partitions,
                             [newParts |-> <<>>, changed |-> FALSE])
    IN IF round.changed THEN refineLoop(dfa, round.newParts) ELSE round.newParts

\* partName(part) = [...part].sort().join("_")
partName(part) == Join(Sorted(Range(part)), <<"_">>)

\* new Set(list): the members of list in order, each once
RECURSIVE SetOf(_)
SetOf(list) ==
    IF list = <<>> THEN <<>>
    ELSE SetAdd(SetOf(SubSeq(list, 1, Len(list) - 1)), list[Len(list)])

\* stateToPart after partitions.forEach((p) => p.forEach(...))
RECURSIVE stateToPartOf(_, _)
stateToPartOf(partitions, map) ==
    IF partitions = <<>> THEN map
    ELSE LET RECURSIVE putAll(_, _)
             putAll(members, acc) ==
                 IF members = <<>> THEN acc
                 ELSE putAll(Tail(members),
                             MapPut(acc, Head(members), partName(Head(partitions))))
         IN stateToPartOf(Tail(partitions), putAll(Head(partitions), map))

\* the transitions of the minimized DFA, partition by partition
RECURSIVE minimizedTransitions(_, _, _, _)
minimizedTransitions(dfa, stateToPart, partitions, map) ==
    IF partitions = <<>> THEN map
    ELSE LET rep == Head(partitions)[1]
             from == partName(Head(partitions))
             RECURSIVE perSymbol(_, _)
             perSymbol(symbols, acc) ==
                 IF symbols = <<>> THEN acc
                 ELSE LET t == MapValue(dfa.transitions, faKey(rep, Head(symbols)))
                      IN perSymbol(Tail(symbols),
                            IF t # Undefined /\ t # <<>>
                            THEN MapPut(acc, faKey(from, Head(symbols)),
                                        MapValue(stateToPart, t))
                            ELSE acc)
         IN minimizedTransitions(dfa, stateToPart, Tail(partitions),
                                 perSymbol(dfa.alphabet, map))

\* allStates: the states the first loop reaches, in the order it adds them
allStatesOf(dfa) ==
    reachLoop(dfa, [reachable |-> <<dfa.startState>>, queue |-> <<dfa.startState>>])

\* partitions before the second loop: acc, then nonAcc, each when not empty
firstPartitions(dfa) ==
    LET isAcc(s) == s \in Range(dfa.acceptStates)
        notAcc(s) == s \notin Range(dfa.acceptStates)
        acc == SelectSeq(allStatesOf(dfa), isAcc)
        nonAcc == SelectSeq(allStatesOf(dfa), notAcc)
    IN (IF acc # <<>> THEN <<acc>> ELSE <<>>) \o
       (IF nonAcc # <<>> THEN <<nonAcc>> ELSE <<>>)

\* the locals of minimizeDFA when its second loop is first reached; passes
\* counts the passes of that loop and previous is partitions before the last
refineStart(dfa) ==
    [pc |-> "loop", dfa |-> dfa, reachable |-> allStatesOf(dfa),
     partitions |-> firstPartitions(dfa), previous |-> <<>>,
     changed |-> TRUE, passes |-> 0]

\* minimizeDFA has not been called
refineIdle ==
    [pc |-> "idle", dfa |-> <<>>, reachable |-> <<>>, partitions |-> <<>>,
     previous |-> <<>>, changed |-> FALSE, passes |-> 0]

\* one pass of the second loop, with the loop test after it
refineStep(run) ==
    LET round == refineParts(run.dfa, run.partitions, run.partitions,
                             [newParts |-> <<>>, changed |-> FALSE])
    IN [run EXCEPT !.previous = run.partitions,
                   !.partitions = round.newParts,
                   !.changed = round.changed,
                   !.passes = @ + 1,
                   !.pc = IF round.changed THEN "loop" ELSE "done"]

\* minimizeDFA(dfa): the DFA it returns; partitions is its local of that name
minimizeDFA(dfa) ==
    LET isAcc(s) == s \in Range(dfa.acceptStates)
        partitions == refineLoop(dfa, firstPartitions(dfa))
        stateToPart == stateToPartOf(partitions, <<>>)
        someAcc(p) == \E s \in Range(p) : isAcc(s)
        names(parts) == [i \in DOMAIN parts |-> partName(parts[i])]
    IN [states |-> SetOf(names(partitions)),
        alphabet |-> dfa.alphabet,
        startState |-> MapValue(stateToPart, dfa.startState),
        acceptStates |-> SetOf(names(SelectSeq(partitions, someAcc))),
        transitions |-> minimizedTransitions(dfa, stateToPart, partitions, <<>>),
        partitions |-> partitions]

\* formatDFA(dfa): the parts of the text; the transition lines as a set, their
\* order being that of localeCompare
formatDFA(dfa) ==
    [estados |-> dfa.states, alfabeto |-> dfa.alphabet,
     inicial |-> dfa.startState, aceptacion |-> dfa.acceptStates,
     transiciones |->
        {<<keyFrom(dfa.transitions[i].key), keyLabel(dfa.transitions[i].key),
           dfa.transitions[i].value>> : i \in DOMAIN dfa.transitions}]

\* ------------------------------------ the pipeline on object references
\* The four functions once more, with every Set, Map and model an object of
\* a heap.  The heap is the sequence of the objects allocated so far and a
\* reference is an index into it: new Set(...), new Map() and an object
\* literal append an object, add and set change the object their receiver
\* refers to.  Arrays made by [...x] stay values: none of them leaves the
\* function that made it.
HeapSet(items) == [kind |-> "Set", items |-> items]

\* a Map whose values are references to Sets
HeapSetMap(items) == [kind |-> "SetMap", items |-> items]

\* a Map whose values are strings
HeapNameMap(items) == [kind |-> "NameMap", items |-> items]

HeapModel(states, alphabet, startState, acceptStates, transitions) ==
    [kind |-> "Model", states |-> states, alphabet |-> alphabet,
     startState |-> startState, acceptStates |-> acceptStates,
     transitions |-> transitions]

\* heap[map] read as a Map from key to Set: its entries with their members
SetMapRead(heap, map) ==
    [i \in DOMAIN heap[map].items |->
        [key |-> heap[map].items[i].key,
         dests |-> heap[heap[map].items[i].value].items]]

\* the objects a reference leads to: the object itself, the five parts of a
\* model, the Sets a Map of Sets holds
RECURSIVE Reach(_, _)
Reach(heap, ref) ==
    LET object == heap[ref]
    IN {ref} \cup
       (CASE object.kind = "Model" ->
               {object.states, object.alphabet, object.acceptStates}
                  \cup Reach(heap, object.transitions)
          [] object.kind = "SetMap" ->
               {object.items[i].value : i \in DOMAIN object.items}
          [] OTHER -> {})

\* the model buildFaModel returns, as the objects it is made of: the Sets
\* states, alphabet and acceptStates, one Set per key of transitions, the Map
\* transitions and the model itself, which is the last object
modelOnHeap(model) ==
    LET n == Len(model.transitions)
    IN <<HeapSet(Sorted(model.states)), HeapSet(Sorted(model.alphabet)),
         HeapSet(Sorted(model.acceptStates))>>
       \o [i \in 1..n |-> HeapSet(model.transitions[i].dests)]
       \o <<HeapSetMap([i \in 1..n |->
                          [key |-> model.transitions[i].key, value |-> 3 + i]]),
            HeapModel(1, 2, model.startState, 3, n + 4)>>

\* if (!map.has(key)) map.set(key, new Set()); map.get(key).add(to)
MapAddRefs(heap, map, key, to) ==
    LET has == \E i \in DOMAIN heap[map].items : heap[map].items[i].key = key
        made == IF has THEN heap
                ELSE [Append(heap, HeapSet(<<>>)) EXCEPT
                        ![map].items = Append(@, [key |-> key,
                                                  value |-> Len(heap) + 1])]
        receiver == MapValue(made[map].items, key)
    IN [made EXCEPT ![receiver].items = SetAdd(@, to)]

\* addTransition(from, symbol, to) on the objects of the locals
addTransitionRefs(st, from, symbol, to) ==
    LET added == MapAddRefs(st.heap, st.transitions, faKey(from, symbol), to)
    IN [st EXCEPT !.heap = IF symbol # Eps
                           THEN [added EXCEPT ![st.alphabet].items = SetAdd(@, symbol)]
                           ELSE added]

RECURSIVE expandChainRefs(_, _, _, _, _)
expandChainRefs(st, prev, label, i, to) ==
    IF i > Len(label) THEN st
    ELSE LET isLast == i = Len(label)
             next == IF isLast THEN to ELSE auxName(st.aux)
             named == [st EXCEPT !.aux = IF isLast THEN @ ELSE @ + 1,
                                 !.heap[st.states].items = SetAdd(@, next)]
             add(locals) == addTransitionRefs(locals, prev, <<label[i]>>, next)
             rest(added) == expandChainRefs(added, next, label, i + 1, to)
         IN With(With(named, add), rest)

RECURSIVE expandAllRefs(_, _)
expandAllRefs(st, list) ==
    IF list = <<>> THEN st
    ELSE LET t == Head(list)
             label == normalizeEpsilonLabel(t.label)
             rest(added) == expandAllRefs(added, Tail(list))
         IN With(IF label = Eps THEN addTransitionRefs(st, t.from, Eps, t.to)
                 ELSE IF Len(label) <= 1
                 THEN addTransitionRefs(st, t.from, label, t.to)
                 ELSE expandChainRefs(st, t.from, label, 1, t.to),
                 rest)

\* expandLabelsToUnitNFA(model): the heap after the call and the reference it
\* returns
expandLabelsToUnitNFARefs(heap, model) ==
    LET input == heap[model]
        states == Len(heap) + 1
        transitions == Len(heap) + 2
        alphabet == Len(heap) + 3
        locals == heap \o <<HeapSet(heap[input.states].items), HeapSetMap(<<>>),
                            HeapSet(<<>>)>>
        loop(st) == expandAllRefs(st,
                       transitionsListFrom(SetMapRead(heap, input.transitions)))
        return(st) ==
            [heap |-> st.heap \o
                         <<HeapSet(st.heap[input.acceptStates].items),
                           HeapModel(states, alphabet, input.startState,
                                     Len(st.heap) + 1, transitions)>>,
             result |-> Len(st.heap) + 2]
    IN With(With([heap |-> locals, states |-> states, transitions |-> transitions,
                  alphabet |-> alphabet, aux |-> 0], loop), return)

\* an epsilonClosure whose closure is the Set it was given
epsilonClosureRefsInPlace(heap, transitions, inputStates) ==
    [heap |-> [heap EXCEPT ![inputStates].items =
                  epsilonClosure(SetMapRead(heap, transitions), @)],
     result |-> inputStates]

\* epsilonClosure(transitions, inputStates): closure is a new Set, the only
\* object the loop changes; the empty Set of line 2645 is read and dropped
epsilonClosureRefs(heap, transitions, inputStates) ==
    [heap |-> Append(heap,
                 HeapSet(epsilonClosure(SetMapRead(heap, transitions),
                                        heap[inputStates].items))),
     result |-> Len(heap) + 1]

\* alphabet.forEach for one currentSet: moveSet and the closure of it are new
\* Sets; transitions, seen and states are the objects of the locals
RECURSIVE determinizeSymbolsRefs(_, _, _)
determinizeSymbolsRefs(st, currentSet, symbols) ==
    IF symbols = <<>> THEN st
    ELSE LET symbol == Head(symbols)
             given == st.heap[st.nfaUnit].transitions
             moved == Append(st.heap,
                         HeapSet(moveSetOf(SetMapRead(st.heap, given),
                                           st.heap[currentSet].items, symbol, <<>>)))
             close(heap) == epsilonClosureRefs(heap, given, Len(heap))
             store(closed) ==
                 LET targetSet == closed.result
                     targetKey == setKey(closed.heap[targetSet].items)
                     currentKey == setKey(closed.heap[currentSet].items)
                     linked == [closed.heap EXCEPT ![st.transitions].items =
                                   MapPut(@, faKey(currentKey, symbol), targetKey)]
                 IN IF targetKey \notin Range(linked[st.seen].items)
                    THEN [st EXCEPT
                            !.heap = [linked EXCEPT
                                        ![st.seen].items = Append(@, targetKey),
                                        ![st.states].items =
                                           MapPut(@, targetKey, targetSet)],
                            !.queue = Append(@, targetSet)]
                    ELSE [st EXCEPT !.heap = linked]
             rest(stored) == determinizeSymbolsRefs(stored, currentSet, Tail(symbols))
         IN With(With(With(moved, close), store), rest)

RECURSIVE determinizeLoopRefs(_, _)
determinizeLoopRefs(st, alphabet) ==
    IF st.queue = <<>> THEN st
    ELSE LET rest(after) == determinizeLoopRefs(after, alphabet)
         IN With(determinizeSymbolsRefs([st EXCEPT !.queue = Tail(@)],
                                        Head(st.queue), alphabet),
                 rest)

\* determinizeNFA(nfaUnit): the heap after the call and the reference it
\* returns
determinizeNFARefs(heap, nfaUnit) ==
    LET input == heap[nfaUnit]
        notEps(a) == a # Eps
        alphabet == SelectSeq(heap[input.alphabet].items, notEps)
        keys(list) == [i \in DOMAIN list |-> list[i].key]
        close(single) == epsilonClosureRefs(single, input.transitions, Len(single))
        loop(closed) ==
            LET startSet == closed.result
                startKey == setKey(closed.heap[startSet].items)
            IN determinizeLoopRefs(
                  [heap |-> closed.heap \o
                               <<HeapSet(<<startKey>>),
                                 HeapSetMap(<<[key |-> startKey, value |-> startSet]>>),
                                 HeapNameMap(<<>>)>>,
                   nfaUnit |-> nfaUnit, startSet |-> startSet,
                   queue |-> <<startSet>>, seen |-> Len(closed.heap) + 1, states |-> Len(closed.heap) + 2,
                   transitions |-> Len(closed.heap) + 3],
                  alphabet)
        return(st) ==
            LET entries == st.heap[st.states].items
                accepting(entry) ==
                    \E s \in Range(st.heap[entry.value].items) :
                        s \in Range(st.heap[input.acceptStates].items)
                acceptStates == Len(st.heap) + 1
            IN [heap |-> st.heap \o
                            <<HeapSet(keys(SelectSeq(entries, accepting))),
                              HeapSet(keys(entries)), HeapSet(alphabet),
                              HeapModel(acceptStates + 1, acceptStates + 2,
                                        setKey(st.heap[st.startSet].items),
                                        acceptStates, st.transitions)>>,
                result |-> Len(st.heap) + 4]
    IN With(With(With(Append(heap, HeapSet(<<input.startState>>)), close), loop),
            return)

\* part.forEach: groups.get(signature).add(state) for each state of a part
RECURSIVE groupsOfRefs(_, _, _, _, _)
groupsOfRefs(heap, dfa, partitions, groups, members) ==
    IF members = <<>> THEN heap
    ELSE LET add(sig) == MapAddRefs(heap, groups, sig, Head(members))
             rest(added) == groupsOfRefs(added, dfa, partitions, groups, Tail(members))
         IN With(With(signature(dfa, partitions, Head(members)), add), rest)

\* partitions.forEach of one round; groups is a new Map for every part
RECURSIVE refinePartsRefs(_, _, _, _)
refinePartsRefs(dfa, partitions, parts, acc) ==
    IF parts = <<>> THEN acc
    ELSE LET groups == Len(acc.heap) + 1
             round(grouped) ==
                 [heap |-> grouped,
                  newParts |-> acc.newParts \o
                                  [i \in DOMAIN grouped[groups].items |->
                                      grouped[groups].items[i].value],
                  changed |-> acc.changed \/ Len(grouped[groups].items) > 1]
             rest(sofar) == refinePartsRefs(dfa, partitions, Tail(parts), sofar)
         IN With(With(groupsOfRefs(Append(acc.heap, HeapSetMap(<<>>)), dfa,
                                   partitions, groups, acc.heap[Head(parts)].items),
                      round),
                 rest)

\* the second while loop of minimizeDFA; partitions is an array of references
RECURSIVE refineLoopRefs(_, _, _)
refineLoopRefs(heap, dfa, partitions) ==
    LET again(round) ==
            IF round.changed THEN refineLoopRefs(round.heap, dfa, round.newParts)
            ELSE [heap |-> round.heap, partitions |-> round.newParts]
        members(parts) ==
            refinePartsRefs(dfa, parts, partitions,
                            [heap |-> heap, newParts |-> <<>>, changed |-> FALSE])
    IN With(With([i \in DOMAIN partitions |-> heap[partitions[i]].items], members),
            again)

\* minimizeDFA(dfa): the heap after the call and the reference it returns;
\* given is what the function reads of dfa
minimizeDFARefs(heap, dfa) ==
    LET input == heap[dfa]
        isAcc(s) == s \in Range(heap[input.acceptStates].items)
        notAcc(s) == ~isAcc(s)
        someAcc(p) == \E s \in Range(p) : isAcc(s)
        names(parts) == [i \in DOMAIN parts |-> partName(parts[i])]
        acc == Len(heap) + 2
        nonAcc == Len(heap) + 3
        refine(given) ==
            LET first(locals) ==
                    refineLoopRefs(locals, given,
                       (IF locals[acc].items # <<>> THEN <<acc>> ELSE <<>>) \o
                       (IF locals[nonAcc].items # <<>> THEN <<nonAcc>> ELSE <<>>))
                allocate(allStates) ==
                    heap \o <<HeapSet(allStates), HeapSet(SelectSeq(allStates, isAcc)),
                              HeapSet(SelectSeq(allStates, notAcc))>>
                return(refined) ==
                    LET build(partitions) ==
                            LET finish(stateToPart) ==
                                    refined.heap \o
                                       <<HeapSet(SetOf(names(partitions))),
                                         HeapNameMap(stateToPart),
                                         HeapNameMap(minimizedTransitions(
                                            given, stateToPart, partitions, <<>>)),
                                         HeapSet(SetOf(names(
                                            SelectSeq(partitions, someAcc)))),
                                         HeapSet(given.alphabet),
                                         HeapModel(Len(refined.heap) + 1,
                                                   Len(refined.heap) + 5,
                                                   MapValue(stateToPart,
                                                            given.startState),
                                                   Len(refined.heap) + 4,
                                                   Len(refined.heap) + 3)>>
                            IN With(stateToPartOf(partitions, <<>>), finish)
                    IN With([i \in DOMAIN refined.partitions |->
                                refined.heap[refined.partitions[i]].items],
                            build)
            IN With(With(With(allStatesOf(given), allocate), first), return)
        result(returned) == [heap |-> returned, result |-> Len(returned)]
    IN With(With([alphabet |-> heap[input.alphabet].items,
                  startState |-> input.startState,
                  acceptStates |-> heap[input.acceptStates].items,
                  transitions |-> heap[input.transitions].items], refine),
            result)

\* no call of the pipeline on references has been made: the heap is empty
NoFrame ==
    [call |-> "none", stage |-> "none", heap |-> <<>>, model |-> 0,
     before |-> <<>>, args |-> <<>>, result |-> 0]

\* ------------------------------------- evaluatePDA on object references
\* The configurations of the search and their stack arrays as objects on a
\* heap: a configuration holds the reference of its stack, the queue holds
\* the references of configurations.
HeapArray(items) == [kind |-> "Array", items |-> items]

HeapCfg(state, pos, stack) ==
    [kind |-> "cfg", state |-> state, pos |-> pos, stack |-> stack]

\* nextStack is the array of cfg itself
nextStackRefsShared(heap, stack) == [heap |-> heap, result |-> stack]

\* const nextStack = [...cfg.stack]
nextStackRefs(heap, stack) ==
    [heap |-> Append(heap, HeapArray(heap[stack].items)),
     result |-> Len(heap) + 1]

\* nextStack.pop()
popRefs(heap, array) ==
    [heap EXCEPT ![array].items = SubSeq(@, 1, Len(@) - 1)]

\* nextStack.push(t.push[i]) for i from the last character to the first
pushRefs(heap, array, push) ==
    [heap EXCEPT ![array].items = pushReversed(@, push)]

\* the test of the while loop
whileTestRefs(f) ==
    [f EXCEPT !.stage = IF f.queue # <<>> /\ f.steps < maxSteps
                        THEN "while" ELSE "returned"]

\* the locals of evaluatePDA when the while loop is first reached; born is
\* every object as it was when the statement that made it had ended
evaluatePDARefsStart(model, input) ==
    LET heap == << HeapArray(<<model.initialStack>>),
                   HeapCfg(model.startState, 0, 1) >>
    IN [call |-> "evaluatePDA", stage |-> "while", heap |-> heap,
        model |-> model, input |-> input, queue |-> <<2>>, seen |-> {},
        steps |-> 0, cfg |-> 0, top |-> Eps, each |-> 0, born |-> heap,
        accepted |-> FALSE]

\* the body of the while loop up to model.transitions.forEach
evaluatePDAShiftRefs(f) ==
    LET cfg == f.heap[Head(f.queue)]
        stack == f.heap[cfg.stack].items
        key == pdaCfgKey(PdaCfg(cfg.state, cfg.pos, stack))
        shifted == [f EXCEPT !.queue = Tail(@), !.steps = @ + 1,
                             !.cfg = Head(f.queue),
                             !.top = IF stack # <<>> THEN stack[Len(stack)]
                                     ELSE Eps]
    IN IF key \in f.seen THEN whileTestRefs(shifted)
       ELSE IF cfg.pos = Len(f.input) /\ cfg.state \in f.model.acceptStates
       THEN [shifted EXCEPT !.seen = @ \cup {key}, !.accepted = TRUE,
                            !.stage = "returned"]
       ELSE IF f.model.transitions = <<>>
       THEN whileTestRefs([shifted EXCEPT !.seen = @ \cup {key}])
       ELSE [shifted EXCEPT !.seen = @ \cup {key}, !.stage = "forEach",
                            !.each = 1]

\* one call of the function given to forEach, for transition number f.each
evaluatePDAEachRefs(f) ==
    LET t == f.model.transitions[f.each]
        cfg == f.heap[f.cfg]
        inputMatch == \/ t.inputSym = Eps
                      \/ cfg.pos < Len(f.input)
                            /\ t.inputSym = <<f.input[cfg.pos + 1]>>
        topMatch == t.stackTop = Eps \/ f.top = t.stackTop
        copied == nextStackRefs(f.heap, cfg.stack)
        nextStack == copied.result
        popped == IF t.stackTop # Eps THEN popRefs(copied.heap, nextStack)
                  ELSE copied.heap
        pushed == IF t.push # Eps /\ t.push # <<>>
                  THEN pushRefs(popped, nextStack, t.push)
                  ELSE popped
        made == Append(pushed,
                       HeapCfg(t.nextState,
                               IF t.inputSym = Eps THEN cfg.pos ELSE cfg.pos + 1,
                               nextStack))
        after == IF t.state = cfg.state /\ inputMatch /\ topMatch
                 THEN [f EXCEPT !.heap = made,
                                !.queue = Append(@, Len(made)),
                                !.born = @ \o SubSeq(made, Len(f.heap) + 1,
                                                     Len(made))]
                 ELSE f
    IN IF f.each = Len(f.model.transitions)
       THEN whileTestRefs([after EXCEPT !.each = 0])
       ELSE [after EXCEPT !.each = @ + 1]

\* ------------------------------------------------- FA and PDA: the pages
FaOut(result, message) == [result |-> result, message |-> message]

\* faMinimizedOutput is empty
NoPipe == [stage |-> "none", output |-> <<>>]

\* no epsilonClosure call of its own is under way
NoClosureCall ==
    [arg |-> <<>>, run |-> epsilonClosureIdle, calls |-> 0, first |-> <<>>]

\* the FA and PDA pages after the script has run: loadFaExample() and
\* loadPdaExample() are among its last statements
AutomataPagesLoaded ==
    /\ faForm = FaExampleForm
    /\ faRun = evaluateFAIdle
    /\ faOut = FaOut("-", "Ejemplo AF cargado")
    /\ faPipe = NoPipe
    /\ closureRun = NoClosureCall
    /\ refineRun = refineIdle
    /\ frame = NoFrame
    /\ pdaForm = PdaExampleForm
    /\ pdaRun = evaluatePDAIdle
    /\ pdaOut = FaOut("-", "Ejemplo PDA cargado.")

\* click on faEvaluate: handleFaEvaluate() up to the while loop of evaluateFA,
\* or through its catch block
handleFaEvaluate ==
    /\ faRun.pc # "loop"
    /\ LET built == buildFaModel(faForm)
       IN IF built.ok
          THEN /\ faRun' = evaluateFAStart(built.model, faForm.word)
               /\ UNCHANGED faOut
          ELSE /\ faOut' = FaOut("Error", built.error)
               /\ UNCHANGED faRun
    /\ UNCHANGED <<faForm, faPipe, closureRun, refineRun, frame, tmVars, edVars, pdaVars>>

\* one pass of the while loop of evaluateFA; when the loop ends, the rest of
\* handleFaEvaluate
evaluateFAIterate ==
    /\ faRun.pc = "loop"
    /\ faRun' = evaluateFAStep(faRun)
    /\ IF faRun'.pc = "done"
       THEN faOut' = FaOut(IF faRun'.accepted THEN "Aceptada" ELSE "Rechazada",
                           "Estados explorados")
       ELSE UNCHANGED faOut
    /\ UNCHANGED <<faForm, faPipe, closureRun, refineRun, frame, tmVars, edVars, pdaVars>>

\* click on faLoadExample
loadFaExample ==
    /\ faRun.pc # "loop"
    /\ faForm' = FaExampleForm
    /\ faOut' = FaOut("-", "Ejemplo AF cargado")
    /\ faPipe' = NoPipe
    /\ UNCHANGED <<faRun, closureRun, refineRun, frame, tmVars, edVars, pdaVars>>

\* click on faMinimize: handleFaMinimize()
handleFaMinimize ==
    /\ faRun.pc # "loop"
    /\ LET built == buildFaModel(faForm)
           nfaUnit == expandLabelsToUnitNFA(built.model)
           dfa == determinizeNFA(nfaUnit)
           minimized == minimizeDFA(dfa)
       IN IF built.ok
          THEN /\ faPipe' = [stage |-> "minimized", model |-> built.model,
                             nfaUnit |-> nfaUnit, dfa |-> dfa,
                             minimized |-> minimized,
                             output |-> formatDFA(minimized)]
               /\ faOut' = [faOut EXCEPT
                               !.message = "AF convertido a DFA y minimizado."]
          ELSE /\ faPipe' = NoPipe
               /\ faOut' = [faOut EXCEPT !.message = built.error]
    /\ UNCHANGED <<faForm, faRun, closureRun, refineRun, frame, tmVars, edVars, pdaVars>>

\* click on pdaEvaluate: handlePdaEvaluate() up to the while loop of
\* evaluatePDA, or through its catch block
handlePdaEvaluate ==
    /\ pdaRun.pc # "loop"
    /\ LET built == buildPdaModel(pdaForm)
       IN IF built.ok
          THEN /\ pdaRun' = evaluatePDAStart(built.model, pdaForm.word)
               /\ UNCHANGED pdaOut
          ELSE /\ pdaOut' = FaOut("Error", built.error)
               /\ UNCHANGED pdaRun
    /\ UNCHANGED <<pdaForm, tmVars, edVars, faVars>>

\* one pass of the while loop of evaluatePDA; when the loop ends, the rest of
\* handlePdaEvaluate
evaluatePDAIterate ==
    /\ pdaRun.pc = "loop"
    /\ pdaRun' = evaluatePDAStep(pdaRun)
    /\ IF pdaRun'.pc = "done"
       THEN pdaOut' = IF pdaRun'.accepted
                      THEN FaOut("Aceptada", "Aceptada en")
                      ELSE FaOut("Rechazada",
                                 "No se encontro configuracion de aceptacion.")
       ELSE UNCHANGED pdaOut
    /\ UNCHANGED <<pdaForm, tmVars, edVars, faVars>>

\* click on pdaLoadExample
loadPdaExample ==
    /\ pdaRun.pc # "loop"
    /\ pdaForm' = PdaExampleForm
    /\ pdaOut' = FaOut("-", "Ejemplo PDA cargado.")
    /\ UNCHANGED <<pdaRun, tmVars, edVars, faVars>>

\* -------------------------------------------------------- specifications
\* Two machines built from one definition, each on its own tapes, driven
\* through step() and reset() in any interleaving.
Init ==
    /\ \E definition \in Definitions :
          \E tapes1 \in InputTapes(definition.tapeCount),
             tapes2 \in InputTapes(definition.tapeCount) :
              /\ m = <<NewMachine(definition, tapes1), NewMachine(definition, tapes2)>>
              /\ resetArg = <<tapes1, tapes2>>
    /\ ret = <<NoResult, NoResult>>
    /\ stepCalls = <<0, 0>>
    /\ writeCalls = <<0, 0>>
    /\ editor = ExampleEditor
    /\ field = ExampleField
    /\ ctl = InitialControls
    /\ msg = Message("Ejemplo cargado. Inicializa para simular.", "ok")
    /\ AutomataPagesLoaded

StepAny == \E i \in DOMAIN m : Step(i)
ResetAny == \E i \in DOMAIN m : Reset(i)
ResetDefaultAny == \E i \in DOMAIN m : ResetDefault(i)
WriteAny == \E i \in DOMAIN m : Write(i)

Next == StepAny \/ ResetAny \/ ResetDefaultAny

Spec == Init /\ [][Next]_vars

\* One machine with write() also called directly.
InitTape ==
    /\ \E definition \in Definitions :
          \E tapes1 \in InputTapes(definition.tapeCount) :
              /\ m = <<NewMachine(definition, tapes1)>>
              /\ resetArg = <<tapes1>>
    /\ ret = <<NoResult>>
    /\ stepCalls = <<0>>
    /\ writeCalls = <<0>>
    /\ editor = ExampleEditor
    /\ field = ExampleField
    /\ ctl = InitialControls
    /\ msg = Message("Ejemplo cargado. Inicializa para simular.", "ok")
    /\ AutomataPagesLoaded

NextTape == StepAny \/ ResetAny \/ ResetDefaultAny \/ WriteAny

SpecTape == InitTape /\ [][NextTape]_vars

\* The page: the editor as loadExample leaves it, no machine yet.
InitEditor ==
    /\ m = <<>>
    /\ ret = <<>>
    /\ stepCalls = <<>>
    /\ writeCalls = <<>>
    /\ resetArg = <<>>
    /\ editor = ExampleEditor
    /\ field = ExampleField
    /\ ctl = InitialControls
    /\ msg = Message("Ejemplo cargado. Inicializa para simular.", "ok")
    /\ AutomataPagesLoaded

NextEditor ==
    \/ SaveTransition
    \/ ClearTransition
    \/ TapeCountInput
    \/ EditTape1
    \/ TapeCountChange
    \/ initializeMachine
    \/ loadExample

SpecEditor == InitEditor /\ [][NextEditor]_vars

\* The page with the operations on the states of the diagram and on the whole
\* list of transitions.
NextStates ==
    \/ AddState
    \/ SelectState
    \/ DeleteState
    \/ SaveTransition
    \/ ImportTransitions
    \/ ApplyTransitionTable
    \/ TapeCountInput
    \/ TapeCountChange
    \/ loadExample

SpecStates == InitEditor /\ [][NextStates]_vars

\* The page with a machine that runs: the simulation buttons, the speed
\* slider and the ticks of the live timers.
NextRun ==
    \/ initializeMachine
    \/ loadExample
    \/ StepClick
    \/ RunClick
    \/ PauseClick
    \/ SpeedInput
    \/ ResetClick
    \/ TimerTick
    \/ TapeCountInput
    \/ TapeCountChange

SpecRun == InitEditor /\ [][NextRun]_vars

\* The FA page: a form as a user can fill it in, then clicks on evaluate and
\* on load example.  The generated forms take up to MaxFaLines lines of
\* FaLinePool over the states q0, q1, q2; the others are written out.
MaxFaLines == 3
MaxWordLen == 3

FaLinePool ==
    << Line(q0, Eps, <<q1>>),
       Line(q1, <<"E", "p", "s">>, <<q0>>),
       Line(q0, <<"a">>, <<q1>>),
       Line(q1, <<"a", "b">>, <<q2>>),
       Line(q1, <<"b">>, <<q2>>),
       Line(q0, <<"a">>, <<q0, q2>>),
       Line(q2, <<"ε">>, <<q2>>),
       Line(q0, <<"a", "b">>, <<q2>>),
       Line(q2, <<"b", "a">>, <<q0>>) >>

RECURSIVE Pick(_, _, _)
Pick(pool, chosen, i) ==
    IF i > Len(pool) THEN <<>>
    ELSE (IF i \in chosen THEN <<pool[i]>> ELSE <<>>) \o Pick(pool, chosen, i + 1)

FaWords == UNION {[1..n -> {"a", "b"}] : n \in 0..MaxWordLen}

FaForm(states, startState, acceptStates, transitions) ==
    [states |-> states, alphabet |-> << <<"a">>, <<"b">> >>,
     startState |-> startState, acceptStates |-> acceptStates,
     transitions |-> transitions, word |-> <<>>]

GeneratedFaForms ==
    {FaForm(<<q0, q1, q2>>, q0, acceptStates, Pick(FaLinePool, chosen, 1)) :
        chosen \in {c \in SUBSET (1..Len(FaLinePool)) : Cardinality(c) <= MaxFaLines},
        acceptStates \in {<<q2>>, <<q0, q2>>}}

q9 == <<"q", "9">>

\* forms that name a state outside the declared ones, or leave a part out
MalformedFaForms ==
    { FaForm(<<q0, q1>>, q9, <<q1>>, <<Line(q0, <<"a">>, <<q1>>)>>),
      FaForm(<<q0, q1>>, <<>>, <<q1>>, <<Line(q0, <<"a">>, <<q1>>)>>),
      FaForm(<<q0, q1>>, q0, <<q1, q9>>, <<Line(q0, <<"a">>, <<q1>>)>>),
      FaForm(<<q0, q1>>, q0, <<q1>>, <<Line(q9, <<"a">>, <<q1>>)>>),
      FaForm(<<q0, q1>>, q0, <<q1>>, <<Line(q0, <<"a">>, <<q1, q9>>)>>),
      FaForm(<<q0, q1>>, q0, <<q1>>,
             <<Line(q0, Eps, <<q1>>), Line(q1, <<"b">>, <<q9>>)>>),
      FaForm(<<q0, q1>>, q0, <<q1>>, <<Line(<<>>, <<"a">>, <<q1>>)>>),
      FaForm(<<q0, q1>>, q0, <<q1>>, <<Line(q0, <<"a">>, <<>>)>>),
      FaForm(<<q0, q1>>, q0, <<q1>>,
             <<Line(<<"q", "0", "|", "x">>, <<"a">>, <<q1>>)>>) }

\* forms whose names hold the characters the pipeline builds names with
OddNameFaForms ==
    { FaForm(<<q0, q1, q2, <<"q", "1", "&", "q", "2">>>>, q0,
             << <<"q", "1", "&", "q", "2">> >>,
             <<Line(q0, <<"a">>, <<q1, q2>>),
               Line(q0, <<"b">>, << <<"q", "1", "&", "q", "2">> >>)>>),
      FaForm(<<q0, q1, auxName(0)>>, q0, <<q1>>,
             <<Line(q0, <<"a", "b">>, <<q1>>),
               Line(auxName(0), <<"a">>, <<q1>>)>>),
      FaForm(<<q0, q1>>, q0, <<q1>>,
             <<Line(q0, <<"E", "p", "s", "|", "x">>, <<q1>>)>>),
      FaForm(<<q0, q1, q2, <<"q", "1", "_", "q", "2">>>>, q0, <<q1, q2>>,
             <<Line(q0, <<"a">>, <<q1>>), Line(q0, <<"b">>, <<q2>>),
               Line(q1, <<"b">>, << <<"q", "1", "_", "q", "2">> >>),
               Line(q2, <<"b">>, << <<"q", "1", "_", "q", "2">> >>),
               Line(<<"q", "1", "_", "q", "2">>, <<"a">>, <<q1>>)>>),
      FaForm(<<q0, q1, q2, q3, <<"q", "1", "_", "q", "2">>>>, q0, <<q1, q2, q3>>,
             <<Line(q0, <<"a">>, <<q1>>), Line(q0, <<"b">>, <<q2>>),
               Line(q1, <<"a">>, <<q3>>), Line(q2, <<"a">>, <<q3>>),
               Line(q1, <<"b">>, << <<"q", "1", "_", "q", "2">> >>),
               Line(q2, <<"b">>, << <<"q", "1", "_", "q", "2">> >>),
               Line(<<"q", "1", "_", "q", "2">>, <<"a">>, <<q1>>)>>) }

\* a label of three characters beside an epsilon and a one-character label
LongLabelForm ==
    FaForm(<<q0, q1, q2>>, q0, <<q2>>,
           <<Line(q0, <<"a", "b", "a">>, <<q2>>),
             Line(q0, Eps, <<q1>>),
             Line(q1, <<"b">>, <<q2, q0>>),
             Line(q1, <<"b", "a">>, <<q2>>)>>)

FaForms ==
    GeneratedFaForms \cup MalformedFaForms \cup OddNameFaForms
        \cup {FaExampleForm, LongLabelForm}

InitFA ==
    /\ m = <<>>
    /\ ret = <<>>
    /\ stepCalls = <<>>
    /\ writeCalls = <<>>
    /\ resetArg = <<>>
    /\ editor = ExampleEditor
    /\ field = ExampleField
    /\ ctl = InitialControls
    /\ msg = Message("Ejemplo cargado. Inicializa para simular.", "ok")
    /\ faForm \in {[form EXCEPT !.word = word] : form \in FaForms, word \in FaWords}
    /\ faRun = evaluateFAIdle
    /\ faOut = FaOut("-", "Ejemplo AF cargado")
    /\ faPipe = NoPipe
    /\ closureRun = NoClosureCall
    /\ refineRun = refineIdle
    /\ frame = NoFrame
    /\ pdaForm = PdaExampleForm
    /\ pdaRun = evaluatePDAIdle
    /\ pdaOut = FaOut("-", "Ejemplo PDA cargado.")

NextFA == handleFaEvaluate \/ evaluateFAIterate \/ loadFaExample

SpecFA == InitFA /\ [][NextFA]_vars

\* The PDA page: a form as a user can fill it in, then clicks on evaluate and
\* on load example.
PdaForm(states, startState, acceptStates, transitions) ==
    [states |-> states, startState |-> startState,
     acceptStates |-> acceptStates, initialStack |-> <<"Z">>,
     transitions |-> transitions, word |-> <<>>]

\* balanced parentheses, the closing one popping one "("
ParenthesesForm ==
    PdaForm(<<q0, qf>>, q0, <<qf>>,
            << PdaLine(q0, <<"(">>, <<"Z">>, q0, <<"(", "Z">>),
               PdaLine(q0, <<"(">>, <<"(">>, q0, <<"(", "(">>),
               PdaLine(q0, <<")">>, <<"(">>, q0, Eps),
               PdaLine(q0, Eps, <<"Z">>, qf, <<"Z">>) >>)

\* forms that name a state outside the declared ones, or leave a part out
MalformedPdaForms ==
    { PdaForm(<<q0, qf>>, q9, <<qf>>,
              <<PdaLine(q0, Eps, <<"Z">>, qf, <<"Z">>)>>),
      PdaForm(<<q0, qf>>, q0, <<qf>>,
              <<PdaLine(q0, <<"(">>, <<"Z">>, q9, <<"Z">>),
                PdaLine(q9, <<")">>, <<"Z">>, qf, <<"Z">>)>>),
      PdaForm(<<q0, qf>>, q0, <<qf, q9>>,
              <<PdaLine(q0, <<"(">>, Eps, q9, Eps)>>),
      PdaForm(<<q0, qf>>, q0, <<q9>>,
              <<PdaLine(q0, <<"(">>, Eps, qf, <<>>)>>),
      PdaForm(<<q0, qf>>, q0, <<qf>>,
              <<PdaLine(q0, <<"(">>, <<"Z">>, qf, Missing)>>) }

\* forms with epsilon cycles, a line written twice, an input symbol of two
\* characters, an empty push, and an initial stack symbol of two characters
OddPdaForms ==
    { PdaForm(<<q0, q1, qf>>, q0, <<qf>>,
              << PdaLine(q0, Eps, Eps, q1, Eps),
                 PdaLine(q1, Eps, Eps, q0, <<>>),
                 PdaLine(q1, <<"(">>, <<"Z">>, q1, <<"(", ")", "Z">>),
                 PdaLine(q1, <<")">>, <<"(">>, qf, <<>>) >>),
      PdaForm(<<q0, qf>>, q0, <<qf>>,
              << PdaLine(q0, <<"(">>, Eps, q0, <<"(">>),
                 PdaLine(q0, <<"(">>, Eps, q0, <<"(">>),
                 PdaLine(q0, <<"(", "(">>, Eps, qf, Eps),
                 PdaLine(q0, <<")">>, <<"(">>, qf, Eps),
                 PdaLine(qf, <<")">>, <<"(">>, qf, Eps),
                 PdaLine(qf, <<")">>, <<"Z">>, qf, Eps),
                 PdaLine(qf, <<")">>, <<"(">>, q0, <<"Z", "Z">>) >>),
      [PdaForm(<<q0, qf>>, q0, <<qf>>,
               << PdaLine(q0, Eps, <<"A", "B">>, q0, <<"B", "A">>),
                  PdaLine(q0, Eps, <<"B">>, qf, Eps) >>)
          EXCEPT !.initialStack = <<"A", "B">>] }

PdaForms == MalformedPdaForms \cup OddPdaForms \cup {ParenthesesForm, PdaExampleForm}

PdaWords == UNION {[1..n -> {"(", ")"}] : n \in 0..MaxWordLen}

InitPDA ==
    /\ m = <<>>
    /\ ret = <<>>
    /\ stepCalls = <<>>
    /\ writeCalls = <<>>
    /\ resetArg = <<>>
    /\ editor = ExampleEditor
    /\ field = ExampleField
    /\ ctl = InitialControls
    /\ msg = Message("Ejemplo cargado. Inicializa para simular.", "ok")
    /\ faForm = FaExampleForm
    /\ faRun = evaluateFAIdle
    /\ faOut = FaOut("-", "Ejemplo AF cargado")
    /\ faPipe = NoPipe
    /\ closureRun = NoClosureCall
    /\ refineRun = refineIdle
    /\ frame = NoFrame
    /\ pdaForm \in {[form EXCEPT !.word = word] : form \in PdaForms, word \in PdaWords}
    /\ pdaRun = evaluatePDAIdle
    /\ pdaOut = FaOut("-", "Ejemplo PDA cargado.")

NextPDA == handlePdaEvaluate \/ evaluatePDAIterate \/ loadPdaExample

SpecPDA == InitPDA /\ [][NextPDA]_vars

\* The FA page with the handler of a click running to its end: the browser
\* does not suspend a listener.
SpecFALive == SpecFA /\ WF_vars(evaluateFAIterate)

\* The FA page with clicks on minimize: every form of FaForms, the word
\* field left empty.
InitMinimize ==
    /\ m = <<>>
    /\ ret = <<>>
    /\ stepCalls = <<>>
    /\ writeCalls = <<>>
    /\ resetArg = <<>>
    /\ editor = ExampleEditor
    /\ field = ExampleField
    /\ ctl = InitialControls
    /\ msg = Message("Ejemplo cargado. Inicializa para simular.", "ok")
    /\ faForm \in FaForms
    /\ faRun = evaluateFAIdle
    /\ faOut = FaOut("-", "Ejemplo AF cargado")
    /\ faPipe = NoPipe
    /\ closureRun = NoClosureCall
    /\ refineRun = refineIdle
    /\ frame = NoFrame
    /\ pdaForm = PdaExampleForm
    /\ pdaRun = evaluatePDAIdle
    /\ pdaOut = FaOut("-", "Ejemplo PDA cargado.")

NextMinimize == handleFaMinimize \/ loadFaExample

SpecMinimize == InitMinimize /\ [][NextMinimize]_vars

\* epsilonClosure on its own: called with a transition Map and a Set of
\* states, then called again with the Set it returned.
EpsEntry(from, dests) == [key |-> faKey(from, Eps), dests |-> dests]

\* an epsilon chain q0 .. q4, closed into a cycle, with a branch q1 -> q3
LongChainRelation ==
    << EpsEntry(q0, <<q1>>), EpsEntry(q1, <<q2, q3>>), EpsEntry(q2, <<q3>>),
       EpsEntry(q3, <<q4>>), EpsEntry(q4, <<q0>>) >>

\* the chain without the edge that closes it
OpenChainRelation == SubSeq(LongChainRelation, 1, 4)

ClosureRelations ==
    {expandLabelsToUnitNFA(buildFaModel(form).model).transitions :
        form \in {f \in FaForms : buildFaModel(f).ok}}
    \cup {LongChainRelation, OpenChainRelation}

ClosureStateSets == {Sorted(states) : states \in SUBSET {q0, q1, q2, q4}}

\* a call of epsilonClosure(transitions, inputStates) begins
epsilonClosureCall ==
    /\ closureRun.calls = 0
    /\ closureRun' = [closureRun EXCEPT
          !.run = epsilonClosureStart(closureRun.arg.transitions,
                                      closureRun.arg.inputStates),
          !.calls = 1]
    /\ UNCHANGED <<faForm, faRun, faOut, faPipe, refineRun, frame, tmVars, edVars, pdaVars>>

\* one pass of the while loop of epsilonClosure
epsilonClosureIterate ==
    /\ closureRun.run.pc = "loop"
    /\ closureRun' = [closureRun EXCEPT !.run = epsilonClosureStep(@)]
    /\ UNCHANGED <<faForm, faRun, faOut, faPipe, refineRun, frame, tmVars, edVars, pdaVars>>

\* the Set the first call returned is passed to a second call
epsilonClosureAgain ==
    /\ closureRun.run.pc = "done"
    /\ closureRun.calls = 1
    /\ closureRun' = [closureRun EXCEPT
          !.run = epsilonClosureStart(closureRun.arg.transitions,
                                      closureRun.run.closure),
          !.first = closureRun.run.closure,
          !.calls = 2]
    /\ UNCHANGED <<faForm, faRun, faOut, faPipe, refineRun, frame, tmVars, edVars, pdaVars>>

InitClosure ==
    /\ m = <<>>
    /\ ret = <<>>
    /\ stepCalls = <<>>
    /\ writeCalls = <<>>
    /\ resetArg = <<>>
    /\ editor = ExampleEditor
    /\ field = ExampleField
    /\ ctl = InitialControls
    /\ msg = Message("Ejemplo cargado. Inicializa para simular.", "ok")
    /\ faForm = FaExampleForm
    /\ faRun = evaluateFAIdle
    /\ faOut = FaOut("-", "Ejemplo AF cargado")
    /\ faPipe = NoPipe
    /\ closureRun \in
          {[arg |-> [transitions |-> transitions, inputStates |-> inputStates],
            run |-> epsilonClosureIdle, calls |-> 0, first |-> <<>>] :
              transitions \in ClosureRelations, inputStates \in ClosureStateSets}
    /\ refineRun = refineIdle
    /\ frame = NoFrame
    /\ pdaForm = PdaExampleForm
    /\ pdaRun = evaluatePDAIdle
    /\ pdaOut = FaOut("-", "Ejemplo PDA cargado.")

NextClosure == epsilonClosureCall \/ epsilonClosureIterate \/ epsilonClosureAgain

SpecClosure == InitClosure /\ [][NextClosure]_vars

\* epsilonClosure runs to its end once called.
SpecClosureLive == SpecClosure /\ WF_vars(epsilonClosureIterate)

\* ------------------------------------------- minimizeDFA, pass by pass
MaxPasses == 10

\* the DFAs determinizeNFA returns for the forms buildFaModel accepts
PipelineDfas ==
    {determinizeNFA(expandLabelsToUnitNFA(buildFaModel(form).model)) :
        form \in {f \in FaForms : buildFaModel(f).ok}}

\* dfa without the state of the empty subset and the transitions into it: a
\* partial DFA
WithoutDeadState(dfa) ==
    LET live(name) == name # <<EmptySetSign>>
        kept(entry) == /\ entry.value # <<EmptySetSign>>
                       /\ keyFrom(entry.key) # <<EmptySetSign>>
    IN [dfa EXCEPT !.states = SelectSeq(@, live),
                   !.transitions = SelectSeq(@, kept)]

RefineDfas ==
    PipelineDfas \cup
    {WithoutDeadState(dfa) : dfa \in {d \in PipelineDfas :
                                         d.startState # <<EmptySetSign>>}}

\* minimizeDFA(dfa) is called and reaches its second loop
minimizeDFACall ==
    /\ refineRun.pc = "idle"
    /\ refineRun' = refineStart(refineRun.dfa)
    /\ UNCHANGED <<faForm, faRun, faOut, faPipe, frame, closureRun, tmVars, edVars, pdaVars>>

\* one pass of the second loop of minimizeDFA
minimizeDFAPass ==
    /\ refineRun.pc = "loop"
    /\ refineRun.passes < MaxPasses
    /\ refineRun' = refineStep(refineRun)
    /\ UNCHANGED <<faForm, faRun, faOut, faPipe, frame, closureRun, tmVars, edVars, pdaVars>>

InitRefine ==
    /\ m = <<>>
    /\ ret = <<>>
    /\ stepCalls = <<>>
    /\ writeCalls = <<>>
    /\ resetArg = <<>>
    /\ editor = ExampleEditor
    /\ field = ExampleField
    /\ ctl = InitialControls
    /\ msg = Message("Ejemplo cargado. Inicializa para simular.", "ok")
    /\ faForm = FaExampleForm
    /\ faRun = evaluateFAIdle
    /\ faOut = FaOut("-", "Ejemplo AF cargado")
    /\ faPipe = NoPipe
    /\ closureRun = NoClosureCall
    /\ refineRun \in {[refineIdle EXCEPT !.dfa = dfa] : dfa \in RefineDfas}
    /\ frame = NoFrame
    /\ pdaForm = PdaExampleForm
    /\ pdaRun = evaluatePDAIdle
    /\ pdaOut = FaOut("-", "Ejemplo PDA cargado.")

NextRefine == minimizeDFACall \/ minimizeDFAPass

SpecRefine == InitRefine /\ [][NextRefine]_vars

\* the second loop of minimizeDFA runs to its end once reached.
SpecRefineLive == SpecRefine /\ WF_vars(minimizeDFAPass)

\* ------------------------------------- evaluatePDA up to its step bound
\* The PDA page on forms whose search does not end by itself.  GrowingPdaForm
\* has one line that pushes X under epsilon, so that the stack grows without
\* bound, one line that reads "(", and MaxSameLines lines that leave the
\* configuration as it is; every line applies in every configuration.
MaxSameLines == 78

GrowingPdaForm ==
    [PdaForm(<<q0, qf>>, q0, <<qf>>,
             <<PdaLine(q0, <<"(">>, Eps, q0, Eps)>>
             \o [i \in 1..MaxSameLines |-> PdaLine(q0, Eps, Eps, q0, Eps)]
             \o <<PdaLine(q0, Eps, Eps, q0, <<"X">>)>>)
        EXCEPT !.word = <<"(", "(", "(">>]

BoundPdaForms ==
    {GrowingPdaForm}
        \cup {[form EXCEPT !.word = word] : form \in OddPdaForms, word \in PdaWords}

InitPdaBound ==
    /\ m = <<>>
    /\ ret = <<>>
    /\ stepCalls = <<>>
    /\ writeCalls = <<>>
    /\ resetArg = <<>>
    /\ editor = ExampleEditor
    /\ field = ExampleField
    /\ ctl = InitialControls
    /\ msg = Message("Ejemplo cargado. Inicializa para simular.", "ok")
    /\ faForm = FaExampleForm
    /\ faRun = evaluateFAIdle
    /\ faOut = FaOut("-", "Ejemplo AF cargado")
    /\ faPipe = NoPipe
    /\ closureRun = NoClosureCall
    /\ refineRun = refineIdle
    /\ frame = NoFrame
    /\ pdaForm \in BoundPdaForms
    /\ pdaRun = evaluatePDAIdle
    /\ pdaOut = FaOut("-", "Ejemplo PDA cargado.")

NextPdaBound == handlePdaEvaluate \/ evaluatePDAIterate

SpecPdaBound == InitPdaBound /\ [][NextPdaBound]_vars

\* ------------------------------------- the PDA page, listener by listener
\* click on pdaEvaluate: handlePdaEvaluate() from its first line to its last
handlePdaEvaluateAtOnce ==
    /\ LET built == buildPdaModel(pdaForm)
       IN IF built.ok
          THEN \E run \in {evaluatePDALoop(evaluatePDAStart(built.model,
                                                              pdaForm.word))} :
                  /\ pdaRun' = run
                  /\ pdaOut' = FaOut(IF evaluatePDAReturn(run).accepted
                                     THEN "Aceptada" ELSE "Rechazada",
                                     evaluatePDAReturn(run).detail)
          ELSE /\ pdaOut' = FaOut("Error", built.error)
               /\ UNCHANGED pdaRun
    /\ UNCHANGED <<pdaForm, tmVars, edVars, faVars>>

\* the forms of SpecPDA with their words, the growing form, and the example
\* with the word it is loaded with
ResultPdaForms ==
    {GrowingPdaForm, PdaExampleForm}
        \cup {[form EXCEPT !.word = word] : form \in PdaForms, word \in PdaWords}

InitPdaResult ==
    /\ m = <<>>
    /\ ret = <<>>
    /\ stepCalls = <<>>
    /\ writeCalls = <<>>
    /\ resetArg = <<>>
    /\ editor = ExampleEditor
    /\ field = ExampleField
    /\ ctl = InitialControls
    /\ msg = Message("Ejemplo cargado. Inicializa para simular.", "ok")
    /\ faForm = FaExampleForm
    /\ faRun = evaluateFAIdle
    /\ faOut = FaOut("-", "Ejemplo AF cargado")
    /\ faPipe = NoPipe
    /\ closureRun = NoClosureCall
    /\ refineRun = refineIdle
    /\ frame = NoFrame
    /\ pdaForm \in ResultPdaForms
    /\ pdaRun = evaluatePDAIdle
    /\ pdaOut = FaOut("-", "Ejemplo PDA cargado.")

NextPdaResult == handlePdaEvaluateAtOnce \/ loadPdaExample

SpecPdaResult == InitPdaResult /\ [][NextPdaResult]_vars

\* ------------------------------------------ the pipeline on references
\* The model of a form buildFaModel accepts is taken through
\* expandLabelsToUnitNFA, determinizeNFA and minimizeDFA as
\* handleFaMinimize does, with a call of epsilonClosure on the unit NFA in
\* between; frame keeps the heap before the last call and after it.
\* frame after a call: what it was given, what it returned, the heap around it
AfterCall(call, stage, args, out, model) ==
    [frame EXCEPT !.call = call, !.stage = stage, !.before = frame.heap,
                  !.heap = out.heap, !.args = args, !.result = out.result,
                  !.model = model]

expandLabelsToUnitNFAOnRefs ==
    /\ frame.stage = "model"
    /\ \E out \in {expandLabelsToUnitNFARefs(frame.heap, frame.model)} :
          frame' = AfterCall("expandLabelsToUnitNFA", "unit", <<frame.model>>,
                             out, out.result)
    /\ UNCHANGED <<faForm, faRun, faOut, faPipe, closureRun, refineRun,
                   tmVars, edVars, pdaVars>>

\* before determinizeNFA is called, a caller makes a Set of one or two
\* states of the unit NFA, or of none, and passes it with the transitions of
\* the unit NFA
epsilonClosureOnRefs ==
    /\ frame.call = "expandLabelsToUnitNFA"
    /\ \E chosen \in SUBSET Range(frame.heap[frame.heap[frame.model].states].items) :
          /\ Cardinality(chosen) <= 2
          /\ LET inputStates == Len(frame.heap) + 1
                 transitions == frame.heap[frame.model].transitions
                 called == [frame EXCEPT
                              !.heap = Append(@, HeapSet(Sorted(chosen)))]
                 out == epsilonClosureRefs(called.heap, transitions, inputStates)
             IN frame' = [called EXCEPT
                            !.call = "epsilonClosure", !.before = called.heap,
                            !.heap = out.heap,
                            !.args = <<transitions, inputStates>>,
                            !.result = out.result]
    /\ UNCHANGED <<faForm, faRun, faOut, faPipe, closureRun, refineRun,
                   tmVars, edVars, pdaVars>>

determinizeNFAOnRefs ==
    /\ frame.stage = "unit"
    /\ \E out \in {determinizeNFARefs(frame.heap, frame.model)} :
          frame' = AfterCall("determinizeNFA", "dfa", <<frame.model>>,
                             out, out.result)
    /\ UNCHANGED <<faForm, faRun, faOut, faPipe, closureRun, refineRun,
                   tmVars, edVars, pdaVars>>

minimizeDFAOnRefs ==
    /\ frame.stage = "dfa"
    /\ \E out \in {minimizeDFARefs(frame.heap, frame.model)} :
          frame' = AfterCall("minimizeDFA", "minimized", <<frame.model>>,
                             out, out.result)
    /\ UNCHANGED <<faForm, faRun, faOut, faPipe, closureRun, refineRun,
                   tmVars, edVars, pdaVars>>

InitFrame ==
    /\ m = <<>>
    /\ ret = <<>>
    /\ stepCalls = <<>>
    /\ writeCalls = <<>>
    /\ resetArg = <<>>
    /\ editor = ExampleEditor
    /\ field = ExampleField
    /\ ctl = InitialControls
    /\ msg = Message("Ejemplo cargado. Inicializa para simular.", "ok")
    /\ faForm \in {form \in FaForms : buildFaModel(form).ok}
    /\ faRun = evaluateFAIdle
    /\ faOut = FaOut("-", "Ejemplo AF cargado")
    /\ faPipe = NoPipe
    /\ closureRun = NoClosureCall
    /\ refineRun = refineIdle
    /\ frame = [NoFrame EXCEPT
                  !.stage = "model",
                  !.heap = modelOnHeap(buildFaModel(faForm).model),
                  !.model = Len(modelOnHeap(buildFaModel(faForm).model))]
    /\ pdaForm = PdaExampleForm
    /\ pdaRun = evaluatePDAIdle
    /\ pdaOut = FaOut("-", "Ejemplo PDA cargado.")

NextFrame ==
    \/ expandLabelsToUnitNFAOnRefs
    \/ epsilonClosureOnRefs
    \/ determinizeNFAOnRefs
    \/ minimizeDFAOnRefs

SpecFrame == InitFrame /\ [][NextFrame]_vars

\* ------------------------------------------------------------------------
\* The PDA page with the search on object references: a click on evaluate,
\* then the loop one statement group at a time.
\* click on pdaEvaluate: handlePdaEvaluate() up to the while loop
handlePdaEvaluateOnRefs ==
    /\ frame.stage \in {"none", "returned"}
    /\ \E built \in {buildPdaModel(pdaForm)} :
          IF built.ok
          THEN /\ frame' = whileTestRefs(
                              evaluatePDARefsStart(built.model, pdaForm.word))
               /\ UNCHANGED pdaOut
          ELSE /\ pdaOut' = FaOut("Error", built.error)
               /\ UNCHANGED frame
    /\ UNCHANGED <<pdaForm, pdaRun, faForm, faRun, faOut, faPipe, closureRun,
                   refineRun, tmVars, edVars>>

\* what handlePdaEvaluate writes once evaluatePDA has returned
pdaOutOnRefs(f) ==
    IF f.stage # "returned" THEN pdaOut
    ELSE IF f.accepted THEN FaOut("Aceptada", "Aceptada en")
    ELSE FaOut("Rechazada", "No se encontro configuracion de aceptacion.")

\* const cfg = queue.shift() and the tests that follow it
evaluatePDAShiftOnRefs ==
    /\ frame.stage = "while"
    /\ \E f \in {evaluatePDAShiftRefs(frame)} :
          frame' = f /\ pdaOut' = pdaOutOnRefs(f)
    /\ UNCHANGED <<pdaForm, pdaRun, faForm, faRun, faOut, faPipe, closureRun,
                   refineRun, tmVars, edVars>>

\* the next transition of model.transitions.forEach
evaluatePDAEachOnRefs ==
    /\ frame.stage = "forEach"
    /\ \E f \in {evaluatePDAEachRefs(frame)} :
          frame' = f /\ pdaOut' = pdaOutOnRefs(f)
    /\ UNCHANGED <<pdaForm, pdaRun, faForm, faRun, faOut, faPipe, closureRun,
                   refineRun, tmVars, edVars>>

InitPdaRefs ==
    /\ m = <<>>
    /\ ret = <<>>
    /\ stepCalls = <<>>
    /\ writeCalls = <<>>
    /\ resetArg = <<>>
    /\ editor = ExampleEditor
    /\ field = ExampleField
    /\ ctl = InitialControls
    /\ msg = Message("Ejemplo cargado. Inicializa para simular.", "ok")
    /\ faForm = FaExampleForm
    /\ faRun = evaluateFAIdle
    /\ faOut = FaOut("-", "Ejemplo AF cargado")
    /\ faPipe = NoPipe
    /\ closureRun = NoClosureCall
    /\ refineRun = refineIdle
    /\ frame = NoFrame
    /\ pdaForm \in {PdaExampleForm} \cup
                   {[form EXCEPT !.word = word] : form \in PdaForms,
                                                  word \in PdaWords}
    /\ pdaRun = evaluatePDAIdle
    /\ pdaOut = FaOut("-", "Ejemplo PDA cargado.")

NextPdaRefs ==
    \/ handlePdaEvaluateOnRefs
    \/ evaluatePDAShiftOnRefs
    \/ evaluatePDAEachOnRefs

SpecPdaRefs == InitPdaRefs /\ [][NextPdaRefs]_vars

\* ------------------------------------------------------------- claims
\* this step is a step() call on instance i
Stepped(i) == stepCalls'[i] = stepCalls[i] + 1

Config(mach) ==
    [currentState |-> mach.currentState, heads |-> mach.heads, tapes |-> mach.tapes,
     stepCount |-> mach.stepCount, halted |-> mach.halted,
     haltReason |-> mach.haltReason, lastTransitionKey |-> mach.lastTransitionKey]

CurrentKey(mach) == transitionKey(mach.currentState, readAll(mach))

Accepting(mach) == mach.currentState \in mach.acceptStates

\* the symbol a tape shows at a position
CellAt(tape, pos) == IF pos \in DOMAIN tape THEN tape[pos] ELSE Blank

\* C1: step() on a machine that is already halted returns the status
\* "halted" with the stored halt reason and changes no field of the machine.
C1_HaltedStepIdempotent ==
    [][\A i \in DOMAIN m :
          (Stepped(i) /\ m[i].halted) =>
              /\ m'[i] = m[i]
              /\ ret'[i] = [status |-> "halted", message |-> <<m[i].haltReason>>]]_vars

\* one machine stepped again after it accepted, the other stepped again after
\* it found no transition
C1_Witness ==
    /\ m[1].halted /\ m[1].haltReason = "Aceptacion."
    /\ ret[1] = [status |-> "halted", message |-> <<"Aceptacion.">>]
    /\ m[2].halted /\ m[2].haltReason = "Sin transicion aplicable."
    /\ ret[2] = [status |-> "halted", message |-> <<"Sin transicion aplicable.">>]

\* C2: step() on a running machine whose current state is an accept state
\* halts with status "accept" and touches nothing but halted and haltReason,
\* whether or not the relation has an entry for the current key.
C2_AcceptBeforeLookup ==
    [][\A i \in DOMAIN m :
          (Stepped(i) /\ ~m[i].halted /\ Accepting(m[i])) =>
              /\ ret'[i].status = "accept"
              /\ m'[i] = [m[i] EXCEPT !.halted = TRUE, !.haltReason = "Aceptacion."]]_vars

\* an accepting start state was stepped once while a transition for its key exists
C2_Witness ==
    \E i \in DOMAIN m :
        /\ stepCalls[i] = 1 /\ ret[i].status = "accept"
        /\ m[i].halted /\ m[i].stepCount = 0
        /\ m[i].currentState = m[i].startState
        /\ CurrentKey(m[i]) \in DOMAIN m[i].transitions

\* C3: step() on a running, non-accepting machine with no entry for the
\* current key returns the status "halted" as a value, sets the reason to
\* "no applicable transition", clears the marker and changes nothing else.
C3_NoTransitionHalts ==
    [][\A i \in DOMAIN m :
          (/\ Stepped(i) /\ ~m[i].halted /\ ~Accepting(m[i])
           /\ CurrentKey(m[i]) \notin DOMAIN m[i].transitions) =>
              /\ ret'[i].status = "halted"
              /\ m'[i] = [m[i] EXCEPT !.halted = TRUE,
                                      !.haltReason = "Sin transicion aplicable.",
                                      !.lastTransitionKey = NoKey]]_vars

\* a machine that had fired transitions met a key without one
C3_Witness ==
    \E i \in DOMAIN m :
        /\ m[i].halted /\ m[i].haltReason = "Sin transicion aplicable."
        /\ m[i].stepCount > 0 /\ m[i].lastTransitionKey = NoKey
        /\ ret[i].status = "halted"
        /\ ret[i].message # <<m[i].haltReason>>

\* C4: a firing step() writes, on each tape that has a write, the symbol at
\* the head position held before the move, moves each head by -1, +1 or 0,
\* enters the next state, adds one to stepCount and records the key; the
\* outcome is the same whichever order the tapes are processed in.
C4_FireEffect ==
    [][\A i \in DOMAIN m :
          (/\ Stepped(i) /\ ~m[i].halted /\ ~Accepting(m[i])
           /\ CurrentKey(m[i]) \in DOMAIN m[i].transitions) =>
              LET key == CurrentKey(m[i])
                  transition == m[i].transitions[key]
              IN /\ \A t \in 1..m[i].tapeCount :
                        LET action == transition.actions[t]
                            head == m[i].heads[t]
                            writes == action.writeSymbol # Null /\ action.writeSymbol # ""
                        IN /\ m'[i].heads[t] =
                                 head + (CASE action.move = "L" -> -1
                                           [] action.move = "R" -> 1
                                           [] OTHER -> 0)
                           /\ \A pos \in (DOMAIN m[i].tapes[t])
                                          \cup (DOMAIN m'[i].tapes[t]) \cup {head} :
                                 CellAt(m'[i].tapes[t], pos) =
                                     IF writes /\ pos = head THEN action.writeSymbol
                                     ELSE CellAt(m[i].tapes[t], pos)
                 /\ m'[i].currentState = transition.nextState
                 /\ m'[i].stepCount = m[i].stepCount + 1
                 /\ m'[i].lastTransitionKey = key
                 /\ applyActions(m[i], transition.actions,
                                 BackwardOrder(Len(transition.actions)))
                      = applyActions(m[i], transition.actions,
                                     ForwardOrder(Len(transition.actions)))]_vars

\* one firing erased under the first head and moved it left of position 0
\* while it wrote under the second head and left it in place
C4_Witness ==
    \E i \in DOMAIN m :
        /\ m[i].tapeCount = 2 /\ m[i].stepCount = 1 /\ ret[i].status = "running"
        /\ m[i].heads = <<-1, 0>>
        /\ resetArg[i][1][1] = "1" /\ 0 \notin DOMAIN m[i].tapes[1]
        /\ CellAt(m[i].tapes[2], 0) = "a"

\* C5: once step() has been called the returned status is running, accept or
\* halted, it is "running" exactly when the machine is not halted, and no
\* machine that has fired a transition sits unhalted in an accept state.
C5_StatusMatchesHalted ==
    \A i \in DOMAIN m :
        /\ stepCalls[i] > 0 =>
              /\ ret[i].status \in {"running", "accept", "halted"}
              /\ (ret[i].status = "running") <=> ~m[i].halted
        /\ ~(m[i].stepCount > 0 /\ Accepting(m[i]) /\ ~m[i].halted)

\* a fired transition entered an accept state and that call returned "accept"
C5_Witness ==
    \E i \in DOMAIN m :
        /\ stepCalls[i] > 0 /\ stepCalls[i] = m[i].stepCount
        /\ Accepting(m[i]) /\ m[i].halted /\ ret[i].status = "accept"

\* C6: no tape Map holds the blank symbol, and read() returns blank exactly
\* where the head position has no entry.
C6_NoStoredBlank ==
    \A i \in DOMAIN m : \A t \in 1..m[i].tapeCount :
        /\ \A pos \in DOMAIN m[i].tapes[t] : m[i].tapes[t][pos] # m[i].blankSymbol
        /\ (read(m[i], t) = m[i].blankSymbol) <=> (m[i].heads[t] \notin DOMAIN m[i].tapes[t])

\* after a reset whose input held a blank, a direct write has removed the
\* entry of a cell that the reset had filled
C6_Witness ==
    \E i \in DOMAIN m : \E t \in 1..m[i].tapeCount :
        /\ writeCalls[i] > 0 /\ stepCalls[i] = 0
        /\ Blank \in Range(resetArg[i][t])
        /\ m[i].heads[t] + 1 \in DOMAIN resetArg[i][t]
        /\ resetArg[i][t][m[i].heads[t] + 1] # Blank
        /\ m[i].heads[t] \notin DOMAIN m[i].tapes[t]

\* C7: right after reset(tapes) the machine is in the configuration of a
\* machine freshly constructed on those tapes: only the non-blank input
\* symbols stored, at the positions 0..n-1, every head 0, the start state,
\* stepCount 0, not halted, no reason, no marker.
C7_ResetIsFresh ==
    \A i \in DOMAIN m :
        (stepCalls[i] = 0 /\ writeCalls[i] = 0) =>
            /\ m[i].currentState = m[i].startState
            /\ m[i].stepCount = 0
            /\ ~m[i].halted
            /\ m[i].haltReason = ""
            /\ m[i].lastTransitionKey = NoKey
            /\ \A t \in 1..m[i].tapeCount :
                  /\ m[i].heads[t] = 0
                  /\ DOMAIN m[i].tapes[t] =
                        {pos \in 0..(Len(resetArg[i][t]) - 1) :
                            resetArg[i][t][pos + 1] # Blank}
                  /\ \A pos \in DOMAIN m[i].tapes[t] :
                        m[i].tapes[t][pos] = resetArg[i][t][pos + 1]
            /\ Config(m[i]) =
                  Config(NewMachine(
                      Def(m[i].states, m[i].startState, m[i].acceptStates,
                          m[i].transitions, m[i].tapeCount),
                      resetArg[i]))

\* a machine that had halted without a transition was reset on tapes other
\* than the ones it was constructed with
C7_Witness ==
    \E i \in DOMAIN m :
        /\ stepCalls[i] = 0 /\ writeCalls[i] = 0
        /\ ret[i].status = "halted"
        /\ resetArg[i] # m[i].initialTapes

SameDefinition(a, b) ==
    /\ a.states = b.states /\ a.startState = b.startState
    /\ a.acceptStates = b.acceptStates /\ a.transitions = b.transitions
    /\ a.tapeCount = b.tapeCount

\* C8: two machines of one definition whose last construction or reset used
\* the same tapes, after the same number of step() calls, agree on the
\* configuration and on the status returned by the last call.
C8_SameTrace ==
    \A i \in DOMAIN m, j \in DOMAIN m :
        (/\ SameDefinition(m[i], m[j])
         /\ resetArg[i] = resetArg[j]
         /\ stepCalls[i] = stepCalls[j]
         /\ writeCalls[i] = 0 /\ writeCalls[j] = 0) =>
            /\ Config(m[i]) = Config(m[j])
            /\ stepCalls[i] > 0 => ret[i] = ret[j]

\* a machine reset, after it had run, on tapes it was not constructed with has
\* made as many steps as one that still runs on its constructor's tapes
C8_Witness ==
    /\ resetArg[1] = resetArg[2] /\ stepCalls[1] = stepCalls[2]
    /\ stepCalls[1] >= 3
    /\ m[1].initialTapes # resetArg[1]
    /\ m[2].initialTapes = resetArg[2]
    /\ m[1].stepCount >= 3

IsCopyRun(i) ==
    /\ SameDefinition(m[i], CopyDefinition)
    /\ resetArg[i] = CopyTapes

IsExampleRun(i) ==
    /\ SameDefinition(m[i], ExampleDefinition)
    /\ resetArg[i] = ExampleTapes

\* C9: the two-tape unary copy machine on tape 1 = 1,1,1,1,1 and a blank
\* tape 2 is halted after six step() calls; when halted it is in ef with the
\* accept outcome and tape 2 holds five 1 symbols and nothing else.  The
\* machine loadExample enters, on its start-marked tapes, does the same in
\* seven calls, its five 1 symbols following the marker.
C9_UnaryCopy ==
    \A i \in DOMAIN m :
        /\ IsCopyRun(i) =>
              /\ stepCalls[i] >= 6 => m[i].halted
              /\ stepCalls[i] = 6 => ret[i].status = "accept"
              /\ m[i].halted =>
                    /\ m[i].currentState = "ef"
                    /\ m[i].haltReason = "Aceptacion."
                    /\ m[i].tapes[2] = [pos \in 0..4 |-> "1"]
        /\ IsExampleRun(i) =>
              /\ stepCalls[i] >= 7 => m[i].halted
              /\ stepCalls[i] = 7 => ret[i].status = "accept"
              /\ m[i].halted =>
                    /\ m[i].currentState = "ef"
                    /\ m[i].haltReason = "Aceptacion."
                    /\ m[i].tapes[2] = [pos \in 0..5 |-> IF pos = 0 THEN ">" ELSE "1"]

\* the copy run has just halted
C9_Witness ==
    \E i \in DOMAIN m :
        /\ IsCopyRun(i) /\ stepCalls[i] = 6 /\ m[i].halted
        /\ m[i].stepCount = 6

\* C10: a click on initialize while two transitions of the editor's list have
\* the same key once normalised to the configured tape count ends with a
\* validation error shown and no machine created.
C10_DuplicateKeyRejected ==
    [][(/\ initializeMachine
        /\ buildMeetsDuplicate(editor.transitions, getConfiguredTapeCount(field))) =>
           (m' = <<>> /\ msg'.type = "err")]_vars

\* C13: a click on initialize whose build throws a validation error shows the
\* error and mutates nothing: the machine initialised earlier is still the
\* current machine, in its configuration, and editor.transitions is unchanged.
C13_FailedInitializeKeepsState ==
    [][(initializeMachine /\ ~buildMachineFromEditor(editor, field).ok) =>
           (/\ msg'.type = "err"
            /\ m' = m
            /\ editor'.transitions = editor.transitions)]_vars

\* the states a form names, as written in its fields
FormNamesUndeclared(form) ==
    LET states == Range(form.states)
    IN \/ Trim(form.startState) \notin states
       \/ \E s \in Range(form.acceptStates) : s \notin states
       \/ \E i \in DOMAIN form.transitions :
             \/ form.transitions[i].from \notin states
             \/ \E dest \in Range(form.transitions[i].destinations) :
                   dest \notin states

\* the states a model names, as evaluateFA and the pipeline read its Map
ModelNamesDeclaredOnly(model) ==
    /\ model.startState \in model.states
    /\ model.acceptStates \subseteq model.states
    /\ \A i \in DOMAIN model.transitions :
          /\ keyFrom(model.transitions[i].key) \in model.states
          /\ Range(model.transitions[i].dests) \subseteq model.states

\* C11: a click on evaluate with a form that names, as start state, accept
\* state, transition source or transition destination, a state outside the
\* declared ones ends in the error result without evaluateFA being entered;
\* and every model evaluateFA is entered with names declared states only.
C11_UndeclaredStateRejected ==
    [][handleFaEvaluate =>
          /\ FormNamesUndeclared(faForm) =>
                (faOut'.result = "Error" /\ faRun' = faRun)
          /\ faRun'.pc = "loop" => ModelNamesDeclaredOnly(faRun'.model)]_vars

\* the states a PDA form names, as written in its fields
PdaFormNamesUndeclared(form) ==
    LET states == Range(form.states)
    IN \/ \E s \in Range(form.acceptStates) : s \notin states
       \/ \E i \in DOMAIN form.transitions :
             \/ form.transitions[i].state \notin states
             \/ form.transitions[i].nextState \notin states

\* C12: a click on evaluate with a PDA form in which a transition's source or
\* next state, or an accept state, is outside the declared states ends in the
\* error result without evaluatePDA being entered; and the search of
\* evaluatePDA visits declared states only.
C12_PdaUndeclaredStateRejected ==
    [][/\ (handlePdaEvaluate /\ PdaFormNamesUndeclared(pdaForm)) =>
              (pdaOut'.result = "Error" /\ pdaRun' = pdaRun)
       /\ \A i \in DOMAIN pdaRun'.visited :
              pdaRun'.visited[i].state \in pdaRun'.model.states]_vars

\* the transitions of a model as triples <<from, label, to>>
FaEdges(model) ==
    UNION {{<<keyFrom(entry.key), keyLabel(entry.key), to>> :
                to \in Range(entry.dests)} : entry \in Range(model.transitions)}

\* label occurs in word as a contiguous substring starting exactly at pos
OccursAt(word, label, pos) ==
    \A k \in 1..Len(label) : pos + k <= Len(word) /\ word[pos + k] = label[k]

\* the configurations <<state, pos>> one transition away from c
FaSuccessors(model, word, c) ==
    {<<t[3], IF t[2] = Eps THEN c[2] ELSE c[2] + Len(t[2])>> :
        t \in {t \in FaEdges(model) :
                  /\ t[1] = c[1]
                  /\ t[2] = Eps \/ OccursAt(word, t[2], c[2])}}

RECURSIVE FaReachable(_, _, _)
FaReachable(model, word, configs) ==
    LET more == configs \cup
                UNION {FaSuccessors(model, word, c) : c \in configs}
    IN IF more = configs THEN configs ELSE FaReachable(model, word, more)

\* there is a path from (start, 0) to some (accept state, |word|)
FaPathExists(model, word) ==
    \E c \in FaReachable(model, word, {<<model.startState, 0>>}) :
        c[1] \in model.acceptStates /\ c[2] = Len(word)

\* C14: when evaluateFA returns, accepted is true exactly if a path leads from
\* (start, 0) to some (accept state, |w|), an epsilon transition keeping the
\* position and a transition labelled L moving from p to p + |L| only where w
\* has L as a contiguous substring starting at p.
C14_AcceptedIffPath ==
    faRun.pc = "done" =>
        (faRun.accepted <=> FaPathExists(faRun.model, faRun.word))

\* evaluateFA has accepted a word of two characters through an epsilon
\* transition and a two-character label
C14_Witness ==
    /\ faRun.pc = "done" /\ faRun.accepted
    /\ faRun.word = <<"a", "b">>
    /\ \E t \in FaEdges(faRun.model) : t[2] = <<"a", "b">>
    /\ \E t \in FaEdges(faRun.model) : t[2] = Eps
    /\ \A t \in FaEdges(faRun.model) : Len(t[2]) = 1 => t[2] # <<"b">>

\* C15: evaluateFA terminates: no (state, position) pair is expanded twice,
\* every enqueued position lies in 0..|w|, at most |states| * (|w| + 1)
\* configurations are expanded, and the loop, once entered, is left.
C15_EvaluateFATerminates ==
    /\ [](faRun.pc # "idle" =>
            /\ \A i, j \in DOMAIN faRun.expanded :
                  i # j => faRun.expanded[i] # faRun.expanded[j]
            /\ \A i \in DOMAIN faRun.q :
                  faRun.q[i].pos \in 0..Len(faRun.word)
            /\ Len(faRun.expanded) <=
                  Cardinality(faRun.model.states) * (Len(faRun.word) + 1))
    /\ (faRun.pc = "loop" ~> faRun.pc = "done")

\* evaluateFA has returned after meeting, in a model with an epsilon cycle
\* between q0 and q1, a configuration it had expanded before
C15_Witness ==
    /\ faRun.pc = "done"
    /\ <<q0, Eps, q1>> \in FaEdges(faRun.model)
    /\ <<q1, Eps, q0>> \in FaEdges(faRun.model)
    /\ Len(faRun.expanded) >= 4
    /\ ~faRun.accepted

\* C16: evaluateFA, called with the model of the FA example (q0 -eps-> q1,
\* q1 -ab-> q2, q1 -a-> q3, q3 -b-> q4, q2 -eps-> q4, start q0, accept q4)
\* and the word "ab", returns accepted = true.
C16_ExampleAcceptsAb ==
    (/\ faRun.pc = "done"
     /\ faRun.model = buildFaModel(FaExampleForm).model
     /\ faRun.word = <<"a", "b">>)
        => faRun.accepted

\* the example as loadFaExample fills it in has been evaluated on "ab"
C16_Witness ==
    /\ faForm = FaExampleForm
    /\ faRun.pc = "done"
    /\ faRun.model = buildFaModel(FaExampleForm).model
    /\ faRun.model.states = {q0, q1, q2, q3, q4}
    /\ FaEdges(faRun.model) =
          {<<q0, Eps, q1>>, <<q1, <<"a", "b">>, q2>>, <<q1, <<"a">>, q3>>,
           <<q3, <<"b">>, q4>>, <<q2, Eps, q4>>}
    /\ faRun.word = <<"a", "b">>
    /\ faOut.result = "Aceptada"

\* the transitions of a model as expandLabelsToUnitNFA reads them
NormalizedEdges(model) ==
    {<<t[1], normalizeEpsilonLabel(t[2]), t[3]>> : t \in FaEdges(model)}

\* the names expandLabelsToUnitNFA can give to the intermediate states of the
\* transitions of a model
AuxNames(model) ==
    LET lengths == {Len(t[2]) : t \in FaEdges(model)}
        longest == IF lengths = {} THEN 0
                   ELSE CHOOSE n \in lengths : \A k \in lengths : k <= n
    IN {auxName(k) : k \in 0..(Cardinality(FaEdges(model)) * longest)}

\* unit has a chain from t[1] to t[3] that spells t[2] through |t[2]| - 1
\* distinct intermediate states
ChainIn(model, unit, t) ==
    LET n == Len(t[2])
    IN \E x \in [1..(n - 1) -> AuxNames(model)] :
          /\ \A i, j \in 1..(n - 1) : i # j => x[i] # x[j]
          /\ \A i \in 1..(n - 1) : x[i] \in unit.states
          /\ \A i \in 1..n :
                <<IF i = 1 THEN t[1] ELSE x[i - 1], <<t[2][i]>>,
                  IF i = n THEN t[3] ELSE x[i]>> \in FaEdges(unit)

C18_ClosureIdempotent ==
    (closureRun.calls = 2 /\ closureRun.run.pc = "done") =>
        Range(closureRun.run.closure) = Range(closureRun.first)

\* the second call has returned, the first one having added three states or
\* more to a set of one state
C18_Witness ==
    /\ closureRun.calls = 2 /\ closureRun.run.pc = "done"
    /\ Len(closureRun.arg.inputStates) = 1
    /\ Len(closureRun.first) >= 4
    /\ Len(closureRun.run.closure) >= 4

\* the pairs <<p, q>> with q a member of the Set under the key p|eps
EpsilonEdges(transitions) ==
    UNION {{<<SubSeq(entry.key, 1, Len(entry.key) - 4), to>> :
                to \in Range(entry.dests)} :
           entry \in {e \in Range(transitions) :
                         /\ Len(e.key) >= 4
                         /\ SubSeq(e.key, Len(e.key) - 3, Len(e.key)) = Pipe \o Eps}}

\* the states reachable from states by zero or more epsilon transitions
RECURSIVE EpsilonReachable(_, _)
EpsilonReachable(transitions, states) ==
    LET more == states \cup
                {e[2] : e \in {e \in EpsilonEdges(transitions) : e[1] \in states}}
    IN IF more = states THEN states ELSE EpsilonReachable(transitions, more)

\* C19: epsilonClosure, once called, returns; the Set it returns contains S,
\* is closed under the epsilon transitions, and holds only states reachable
\* from a member of S by zero or more epsilon transitions.
C19_ClosureIsReachableSet ==
    /\ [](closureRun.run.pc = "done" =>
            LET closure == Range(closureRun.run.closure)
                given == Range(closureRun.run.inputStates)
                transitions == closureRun.arg.transitions
            IN /\ given \subseteq closure
               /\ \A e \in EpsilonEdges(transitions) :
                     e[1] \in closure => e[2] \in closure
               /\ closure \subseteq EpsilonReachable(transitions, given))
    /\ (closureRun.run.pc = "loop" ~> closureRun.run.pc = "done")

\* epsilonClosure has returned the whole epsilon cycle q0 .. q4 for {q2}
C19_Witness ==
    /\ closureRun.calls = 1 /\ closureRun.run.pc = "done"
    /\ closureRun.arg.transitions = LongChainRelation
    /\ closureRun.arg.inputStates = <<q2>>
    /\ Range(closureRun.run.closure) = {q0, q1, q2, q3, q4}

\* the DFA run on word from its start state: the Map is read under the key
\* state|symbol, a missing entry stops the run, and the run accepts when the
\* state it ends in is one of acceptStates
RECURSIVE DfaRun(_, _, _)
DfaRun(dfa, state, word) ==
    IF word = <<>> THEN state
    ELSE LET target == MapValue(dfa.transitions, faKey(state, <<word[1]>>))
         IN IF target = Undefined THEN Undefined
            ELSE DfaRun(dfa, target, Tail(word))

DfaAccepts(dfa, word) ==
    DfaRun(dfa, dfa.startState, word) \in Range(dfa.acceptStates)

\* C20: for the model of a form that buildFaModel accepted and every word w,
\* the DFA determinizeNFA(expandLabelsToUnitNFA(model)) ends its run on w in
\* an accepting state exactly when evaluateFA(model, w) accepts.
C20_DeterminizePreservesLanguage ==
    faPipe.stage = "minimized" =>
        \A w \in FaWords :
            DfaAccepts(faPipe.dfa, w) <=> evaluateFA(faPipe.model, w).accepted

\* C21: two subsets that determinizeNFA discovers get the same DFA state
\* identifier exactly when they have the same members.
C21_SubsetIdentifiersCanonical ==
    faPipe.stage = "minimized" =>
        \A d1, d2 \in faPipe.dfa.discovered :
            (d1.key = d2.key) <=> (d1.members = d2.members)

\* the DFA states a run from startState can be in, by fixpoint over the
\* entries read under the key state|symbol
RECURSIVE DfaReachable(_, _)
DfaReachable(dfa, states) ==
    LET more == states \cup
                ({MapValue(dfa.transitions, faKey(st, sym)) :
                     st \in states, sym \in Range(dfa.alphabet)} \ {Undefined})
    IN IF more = states THEN states ELSE DfaReachable(dfa, more)

\* C22: in the DFA determinizeNFA returns, every state has exactly one
\* transition for every alphabet symbol and none for anything else, every
\* target is a state of the DFA, and every state is reachable from startState.
C22_DfaTotalAndClosed ==
    faPipe.stage = "minimized" =>
        LET dfa == faPipe.dfa
            states == Range(dfa.states)
            symbols == Range(dfa.alphabet)
        IN /\ Cardinality(states) = Len(dfa.states)
           /\ dfa.startState \in states
           /\ \A st \in states, sym \in symbols :
                 Cardinality({i \in DOMAIN dfa.transitions :
                                 dfa.transitions[i].key = faKey(st, sym)}) = 1
           /\ \A i \in DOMAIN dfa.transitions :
                 /\ \E st \in states, sym \in symbols :
                       dfa.transitions[i].key = faKey(st, sym)
                 /\ dfa.transitions[i].value \in states
           /\ DfaReachable(dfa, {dfa.startState}) = states

\* a DFA of four states or more, the empty subset among them, was returned
C22_Witness ==
    /\ faPipe.stage = "minimized"
    /\ Len(faPipe.dfa.states) >= 4
    /\ Len(faPipe.dfa.alphabet) = 2
    /\ <<EmptySetSign>> \in Range(faPipe.dfa.states)

\* the words of FaWords over the alphabet of dfa
WordsOver(dfa) ==
    {w \in FaWords : \A i \in DOMAIN w : <<w[i]>> \in Range(dfa.alphabet)}

\* C23: the DFA minimizeDFA returns for a DFA of determinizeNFA accepts a
\* word over the alphabet exactly when that DFA accepts it.
C23_MinimizePreservesLanguage ==
    faPipe.stage = "minimized" =>
        \A w \in WordsOver(faPipe.dfa) :
            DfaAccepts(faPipe.minimized, w) <=> DfaAccepts(faPipe.dfa, w)

\* C25: minimizeDFA applied to the DFA it returned returns a DFA with as
\* many states.
C25_MinimizeIsFixpoint ==
    faPipe.stage = "minimized" =>
        Len(minimizeDFA(faPipe.minimized).states) = Len(faPipe.minimized.states)

\* the index of the block of partitions that holds the state the DFA goes to
\* from state on symbol, -1 when there is no such block
BlockAfter(dfa, partitions, state, symbol) ==
    findIndex(partitions, MapValue(dfa.transitions, faKey(state, symbol)))

\* C24: when the second loop of minimizeDFA has stopped, the members of a
\* block agree on acceptance and, for every symbol, go to the same block; the
\* transition and the acceptance minimizeDFA derives from a block's first
\* member are those it would derive from any other member.
C24_FinalPartitionStable ==
    refineRun.pc = "done" =>
        LET dfa == refineRun.dfa
            partitions == refineRun.partitions
            stateToPart == stateToPartOf(partitions, <<>>)
            target(s, a) == MapValue(dfa.transitions, faKey(s, a))
        IN \A i \in DOMAIN partitions :
              \A s \in Range(partitions[i]) :
                 LET rep == partitions[i][1]
                 IN /\ (s \in Range(dfa.acceptStates)) <=>
                          (rep \in Range(dfa.acceptStates))
                    /\ \A a \in Range(dfa.alphabet) :
                          /\ BlockAfter(dfa, partitions, s, a) =
                                BlockAfter(dfa, partitions, rep, a)
                          /\ (target(s, a) = Undefined) <=>
                                (target(rep, a) = Undefined)
                          /\ MapValue(stateToPart, target(s, a)) =
                                MapValue(stateToPart, target(rep, a))

\* the loop has stopped after two passes or more, with a block of two
\* states or more among four blocks or more
C24_Witness ==
    /\ refineRun.pc = "done"
    /\ refineRun.passes >= 2
    /\ Len(refineRun.partitions) >= 4
    /\ \E i \in DOMAIN refineRun.partitions : Len(refineRun.partitions[i]) >= 2

\* C26: the second loop of minimizeDFA, once reached, stops; it runs at most
\* as many passes as there are states reachable from the start state, and a
\* pass after which the loop goes on leaves more blocks than it found.
C26_RefinementTerminates ==
    /\ [](refineRun.pc # "idle" =>
            /\ refineRun.passes <= Len(refineRun.reachable)
            /\ (refineRun.pc = "loop" /\ refineRun.passes >= 1) =>
                  Len(refineRun.partitions) > Len(refineRun.previous))
    /\ (refineRun.pc = "loop" ~> refineRun.pc = "done")

\* the loop has stopped after five passes over six reachable states
C26_Witness ==
    /\ refineRun.pc = "done"
    /\ refineRun.passes = 5
    /\ Len(refineRun.reachable) = 6
    /\ Len(refineRun.partitions) = 6

\* c is the successor the transition t has from cfg: t's next state, the
\* position one further when t reads a symbol, and the stack of cfg less its
\* top when t names a top, with the characters of t.push above it, the first
\* character topmost
IsPdaSuccessor(t, cfg, c) ==
    LET base == IF t.stackTop # Eps THEN Len(cfg.stack) - 1 ELSE Len(cfg.stack)
        pushed == IF t.push = Eps THEN <<>> ELSE t.push
    IN /\ c.state = t.nextState
       /\ c.pos = IF t.inputSym # Eps THEN cfg.pos + 1 ELSE cfg.pos
       /\ Len(c.stack) = base + Len(pushed)
       /\ \A k \in 1..base : c.stack[k] = cfg.stack[k]
       /\ \A k \in 1..Len(pushed) : c.stack[Len(c.stack) + 1 - k] = <<pushed[k]>>

\* t can be taken from cfg on input
PdaTransitionApplies(t, cfg, input) ==
    /\ t.state = cfg.state
    /\ \/ t.inputSym = Eps
       \/ cfg.pos + 1 \in DOMAIN input /\ <<input[cfg.pos + 1]>> = t.inputSym
    /\ \/ t.stackTop = Eps
       \/ cfg.stack # <<>> /\ cfg.stack[Len(cfg.stack)] = t.stackTop

\* C28: a pass of evaluatePDA that expands a configuration puts on the queue,
\* after what was there, one successor for each transition that applies to
\* it and nothing else.
C28_PdaSuccessors ==
    [][(pdaRun.pc = "loop" /\ pdaRun'.steps = pdaRun.steps + 1
          /\ Len(pdaRun'.visited) > Len(pdaRun.visited)
          /\ ~pdaRun'.accepted) =>
        LET cfg == Head(pdaRun.queue)
            list == pdaRun.model.transitions
            kept == Len(pdaRun.queue) - 1
            enqueued == SubSeq(pdaRun'.queue, kept + 1, Len(pdaRun'.queue))
            applying == {j \in DOMAIN list :
                            PdaTransitionApplies(list[j], cfg, pdaRun.input)}
        IN /\ SubSeq(pdaRun'.queue, 1, kept) = Tail(pdaRun.queue)
           /\ Len(enqueued) = Cardinality(applying)
           /\ \A c \in Range(enqueued) :
                 Cardinality({i \in DOMAIN enqueued : enqueued[i] = c}) =
                 Cardinality({j \in applying : IsPdaSuccessor(list[j], cfg, c)})]_vars

\* a configuration was expanded into two successors, the first by an epsilon
\* move with an empty push, the second with "(" above ")" above "Z" after a
\* pop of "Z"
C28_Witness ==
    /\ pdaRun.pc = "loop"
    /\ Len(pdaRun.queue) >= 2
    /\ LET last == pdaRun.queue[Len(pdaRun.queue)]
           other == pdaRun.queue[Len(pdaRun.queue) - 1]
       IN /\ last = PdaCfg(q1, 1, <<<<"Z">>, <<")">>, <<"(">>>>)
          /\ other = PdaCfg(q0, 0, <<<<"Z">>>>)

\* the successor of cfg by t, built as IsPdaSuccessor describes it
PdaSuccessorOf(t, cfg) ==
    LET base == IF t.stackTop # Eps THEN Len(cfg.stack) - 1 ELSE Len(cfg.stack)
        pushed == IF t.push = Eps THEN <<>> ELSE t.push
    IN PdaCfg(t.nextState,
              IF t.inputSym # Eps THEN cfg.pos + 1 ELSE cfg.pos,
              [k \in 1..(base + Len(pushed)) |->
                  IF k <= base THEN cfg.stack[k]
                  ELSE <<pushed[base + Len(pushed) + 1 - k]>>])

\* the configurations reachable from those given, by fixpoint
RECURSIVE PdaReachable(_, _, _)
PdaReachable(model, input, cfgs) ==
    LET more == cfgs \cup
                {PdaSuccessorOf(model.transitions[j], cfg) :
                    <<j, cfg>> \in
                       {pair \in (DOMAIN model.transitions) \X cfgs :
                           PdaTransitionApplies(model.transitions[pair[1]],
                                                pair[2], input)}}
    IN IF more = cfgs THEN cfgs ELSE PdaReachable(model, input, more)

\* some configuration reachable from the initial one has the whole input
\* consumed and an accept state
PdaAcceptingReachable(model, input) ==
    \E cfg \in PdaReachable(model, input,
                  {PdaCfg(model.startState, 0, <<model.initialStack>>)}) :
        cfg.pos = Len(input) /\ cfg.state \in model.acceptStates

\* C29: evaluatePDA returns accepted = true only if an accepting
\* configuration is reachable, and when it ends with its queue empty before
\* the step bound it returns accepted = true exactly if one is.
C29_PdaAcceptedIffReachable ==
    pdaRun.pc = "done" =>
        /\ pdaRun.accepted => PdaAcceptingReachable(pdaRun.model, pdaRun.input)
        /\ (~pdaRun.accepted /\ pdaRun.queue = <<>> /\ pdaRun.steps < maxSteps) =>
              ~PdaAcceptingReachable(pdaRun.model, pdaRun.input)

\* C30: evaluatePDA ends after at most maxSteps passes of its loop, whatever
\* the model and the input: a pass takes exactly one configuration off the
\* queue, whether it is then skipped as seen or expanded, and raises steps by
\* one; the loop goes on only while steps is below maxSteps and the queue
\* holds a configuration, so a pass can always be made; steps never exceeds
\* maxSteps; no configuration is expanded twice; and a search that ends
\* without accepting leaves configurations on the queue only when steps has
\* reached maxSteps.
C30_PdaSearchBounded ==
    /\ [](/\ pdaRun.steps <= maxSteps
          /\ pdaRun.pc = "loop" => pdaRun.steps < maxSteps /\ pdaRun.queue # <<>>
          /\ Cardinality({pdaRun.visited[i] : i \in DOMAIN pdaRun.visited})
                = Len(pdaRun.visited)
          /\ Len(pdaRun.visited) <= pdaRun.steps
          /\ (pdaRun.pc = "done" /\ pdaRun.queue # <<>> /\ ~pdaRun.accepted)
                => pdaRun.steps = maxSteps)
    /\ [][pdaRun.pc = "loop" =>
            /\ pdaRun'.steps = pdaRun.steps + 1
            /\ Len(pdaRun'.queue) >= Len(pdaRun.queue) - 1
            /\ SubSeq(pdaRun'.queue, 1, Len(pdaRun.queue) - 1)
                  = Tail(pdaRun.queue)]_vars

\* the search on the form with the epsilon cycle between q0 and q1 has ended
\* on an empty queue: it expanded (q0, 0, [Z]) and (q1, 0, [Z]) once each and
\* skipped the configurations the cycle put on the queue again
C30_Witness ==
    /\ pdaRun.pc = "done"
    /\ pdaRun.queue = <<>>
    /\ pdaRun.input = <<>>
    /\ pdaRun.steps = 3
    /\ pdaRun.visited = <<PdaCfg(q0, 0, <<<<"Z">>>>), PdaCfg(q1, 0, <<<<"Z">>>>)>>

\* the objects the arguments of the last call led to when it was made
FrameGiven == UNION {Reach(frame.before, frame.args[i]) : i \in DOMAIN frame.args}

\* C27: after a call of expandLabelsToUnitNFA, epsilonClosure, determinizeNFA
\* or minimizeDFA every object its arguments led to (the model, its Sets
\* states, alphabet and acceptStates, its Map transitions and the Sets in
\* it, the Set given to epsilonClosure) is as it was before the call, and no
\* object the result leads to is one of them.
C27_PipelineLeavesInputAlone ==
    frame.call # "none" =>
        /\ \A ref \in FrameGiven : frame.heap[ref] = frame.before[ref]
        /\ Reach(frame.heap, frame.result) \cap FrameGiven = {}

\* epsilonClosure, called on a unit NFA that has intermediate states, has
\* returned a Set with more members than the Set it was given
C27_Witness ==
    /\ frame.call = "epsilonClosure"
    /\ Len(frame.heap[frame.result].items) > Len(frame.before[frame.args[2]].items)
    /\ \E s \in Range(frame.heap[frame.heap[frame.model].states].items) :
          SubSeq(s, 1, 2) = <<"_", "_">>

\* the search of the last click on pdaEvaluate ended on the step bound with
\* configurations still on the queue and none accepted
PdaSearchCutOff ==
    /\ pdaRun.pc = "done"
    /\ ~pdaRun.accepted
    /\ pdaRun.steps = maxSteps
    /\ pdaRun.queue # <<>>

\* what the page shows after a click on pdaEvaluate with this form
PdaOutFor(form) ==
    LET returned == evaluatePDA(buildPdaModel(form).model, form.word)
    IN FaOut(IF returned.accepted THEN "Aceptada" ELSE "Rechazada", returned.detail)

\* the search on this form ends with the queue empty and nothing accepted
PdaSearchExhausted(form) ==
    /\ buildPdaModel(form).ok
    /\ LET run == evaluatePDALoop(evaluatePDAStart(buildPdaModel(form).model,
                                                  form.word))
       IN ~run.accepted /\ run.queue = <<>> /\ run.steps < maxSteps

\* C31: when the search of evaluatePDA has stopped on the step bound without
\* accepting, the verdict and the diagnostic shown are not those shown for
\* any search that emptied its queue without accepting.
C31_BoundStopDistinguished ==
    (PdaSearchCutOff /\ pdaOut.result # "-") =>
        \A form \in ResultPdaForms \ {GrowingPdaForm} :
            PdaSearchExhausted(form) => pdaOut # PdaOutFor(form)

\* the form holds the settings and transitions loadPdaExample writes, with
\* this word, and the page shows the verdict of a click on pdaEvaluate
PdaExampleEvaluated(word) ==
    /\ pdaForm = [PdaExampleForm EXCEPT !.word = word]
    /\ pdaRun.pc = "done"
    /\ pdaRun.input = word
    /\ pdaOut.result # "-"

\* C32: the balanced-parentheses example as loadPdaExample loads it is
\* accepted by evaluatePDA on the word "(())()" and rejected on "(()".
C32_ParenthesesExample ==
    /\ PdaExampleEvaluated(<<"(", "(", ")", ")", "(", ")">>)
          => pdaOut.result = "Aceptada"
    /\ PdaExampleEvaluated(<<"(", "(", ")">>) => pdaOut.result = "Rechazada"

\* the configurations on the heap of the search
CfgRefs == {ref \in DOMAIN frame.heap : frame.heap[ref].kind = "cfg"}

\* C33: during a search of evaluatePDA no configuration and no stack array
\* changes after the statement that made it: the configuration being
\* expanded keeps its state, its position and its stack, the top every
\* transition is tested against is the top of that stack, and no two
\* configurations hold the same stack array.
C33_ConfigurationsNeverMutated ==
    frame.call = "evaluatePDA" =>
        /\ DOMAIN frame.born = DOMAIN frame.heap
        /\ \A ref \in DOMAIN frame.heap : frame.heap[ref] = frame.born[ref]
        /\ frame.stage = "forEach" =>
              LET stack == frame.heap[frame.heap[frame.cfg].stack].items
              IN frame.top = IF stack # <<>> THEN stack[Len(stack)] ELSE Eps
        /\ \A a, b \in CfgRefs :
              a # b => frame.heap[a].stack # frame.heap[b].stack

\* two transitions applied to one configuration: the queue holds two
\* configurations whose stacks have the same symbols, more than the initial
\* one, in two arrays
C33_Witness ==
    /\ frame.call = "evaluatePDA"
    /\ \E i, j \in DOMAIN frame.queue :
          /\ i < j
          /\ frame.heap[frame.queue[i]].stack # frame.heap[frame.queue[j]].stack
          /\ frame.heap[frame.heap[frame.queue[i]].stack].items
                = frame.heap[frame.heap[frame.queue[j]].stack].items
          /\ Len(frame.heap[frame.heap[frame.queue[i]].stack].items) > 1

\* the states some path of epsilon transitions leads to from these states
RECURSIVE EpsReachable(_, _)
EpsReachable(model, states) ==
    LET more == states \cup {t[3] : t \in {t \in FaEdges(model) :
                                              t[1] \in states /\ t[2] = Eps}}
    IN IF more = states THEN states ELSE EpsReachable(model, more)

\* the configuration the next pass takes off the queue has not been seen, is
\* at the end of the word and is in a state that does not accept
FaEndOfWordPass ==
    /\ faRun.pc = "loop"
    /\ cfgKey(Head(faRun.q)) \notin faRun.seen
    /\ Head(faRun.q).pos = Len(faRun.word)
    /\ Head(faRun.q).state \notin faRun.model.acceptStates

\* C34: evaluateFA expands a configuration at the end of the word that does
\* not accept along its epsilon transitions like any other, and so accepts
\* the word when epsilon transitions lead from such a configuration to an
\* accept state.
C34_EndOfWordEpsilonExplored ==
    /\ [](faRun.pc = "done" =>
            \A i \in DOMAIN faRun.expanded :
               (/\ faRun.expanded[i].pos = Len(faRun.word)
                /\ faRun.expanded[i].state \notin faRun.model.acceptStates
                /\ EpsReachable(faRun.model, {faRun.expanded[i].state})
                      \cap faRun.model.acceptStates # {})
               => faRun.accepted)
    /\ [][FaEndOfWordPass =>
            \A t \in FaEdges(faRun.model) :
               (t[1] = Head(faRun.q).state /\ t[2] = Eps) =>
                  \E k \in DOMAIN faRun'.q :
                     faRun'.q[k] = Cfg(t[3], Head(faRun.q).pos)]_vars

\* evaluateFA has accepted a word of one character or more in a configuration
\* at the end of the word, every other configuration it expanded at the end
\* of the word does not accept, and an epsilon transition leads from one of
\* them to the state it accepted in
C34_Witness ==
    /\ faRun.pc = "done" /\ faRun.accepted
    /\ Len(faRun.word) > 0
    /\ LET n == Len(faRun.expanded)
           last == faRun.expanded[n]
       IN /\ \A i \in 1..(n - 1) :
                faRun.expanded[i].pos = Len(faRun.word) =>
                   faRun.expanded[i].state \notin faRun.model.acceptStates
          /\ \E i \in 1..(n - 1) :
                /\ faRun.expanded[i].pos = Len(faRun.word)
                /\ <<faRun.expanded[i].state, Eps, last.state>>
                      \in FaEdges(faRun.model)
          /\ \A t \in FaEdges(faRun.model) : t[3] = last.state => t[2] = Eps

\* the names expandLabelsToUnitNFA made for intermediate states on this model:
\* one for each value its counter aux went through
CreatedAux(model) ==
    LET acc == expandAll([states |-> model.states, transitions |-> <<>>,
                          alphabet |-> <<>>, aux |-> 0],
                         transitionsListFrom(model.transitions))
    IN {auxName(k) : k \in 0..(acc.aux - 1)}

\* C35: every intermediate state expandLabelsToUnitNFA creates is fresh: it
\* is not a state of the input model, and in the result it has exactly one
\* incoming and exactly one outgoing transition, those of its one chain.
C35_IntermediateStatesFresh ==
    faPipe.stage = "minimized" =>
        \A x \in CreatedAux(faPipe.model) :
            /\ x \notin faPipe.model.states
            /\ Cardinality({e \in FaEdges(faPipe.nfaUnit) : e[3] = x}) = 1
            /\ Cardinality({e \in FaEdges(faPipe.nfaUnit) : e[1] = x}) = 1

\* C36: from the moment the second loop of minimizeDFA is reached, the blocks
\* of partitions are non-empty and pairwise disjoint, their union is the set
\* of DFA states reachable from the start state, every block after a pass
\* lies within one block of the partition before the pass, and the states of
\* the minimized automaton are the names of these blocks.
C36_BlocksPartitionReachable ==
    refineRun.pc # "idle" =>
        LET dfa == refineRun.dfa
            parts == refineRun.partitions
        IN /\ \A i \in DOMAIN parts :
                 /\ parts[i] # <<>>
                 /\ Cardinality(Range(parts[i])) = Len(parts[i])
           /\ \A i, j \in DOMAIN parts :
                 i # j => Range(parts[i]) \cap Range(parts[j]) = {}
           /\ UNION {Range(parts[i]) : i \in DOMAIN parts}
                 = DfaReachable(dfa, {dfa.startState})
           /\ refineRun.passes >= 1 =>
                 \A i \in DOMAIN parts :
                    \E j \in DOMAIN refineRun.previous :
                       Range(parts[i]) \subseteq Range(refineRun.previous[j])
           /\ refineRun.pc = "done" =>
                 /\ minimizeDFA(dfa).partitions = parts
                 /\ Range(minimizeDFA(dfa).states)
                       = {partName(parts[i]) : i \in DOMAIN parts}

\* a pass has split a block: the loop goes on after two passes or more with
\* more blocks than before the pass, one of them of two states or more
C36_Witness ==
    /\ refineRun.pc = "loop"
    /\ refineRun.passes >= 2
    /\ Len(refineRun.partitions) > Len(refineRun.previous)
    /\ \E i \in DOMAIN refineRun.partitions : Len(refineRun.partitions[i]) >= 2

\* C37: minimizeDFA gives distinct final blocks distinct names: the minimized
\* automaton has as many states as there are final blocks, the transition
\* kept for a block and a symbol is the one derived from that block, and a
\* block's name is an accept state exactly when the block holds an accept
\* state of the DFA.
C37_BlockNamesDistinct ==
    faPipe.stage = "minimized" =>
        LET dfa == faPipe.dfa
            minimized == faPipe.minimized
            parts == minimized.partitions
            blockOf(s) == CHOOSE i \in DOMAIN parts : s \in Range(parts[i])
        IN /\ \A i, j \in DOMAIN parts :
                 i # j => partName(parts[i]) # partName(parts[j])
           /\ Len(minimized.states) = Len(parts)
           /\ \A i \in DOMAIN parts : \A a \in Range(dfa.alphabet) :
                 LET t == MapValue(dfa.transitions, faKey(parts[i][1], a))
                 IN t # Undefined =>
                       MapValue(minimized.transitions,
                                faKey(partName(parts[i]), a))
                          = partName(parts[blockOf(t)])
           /\ \A i \in DOMAIN parts :
                 (partName(parts[i]) \in Range(minimized.acceptStates))
                    <=> (\E s \in Range(parts[i]) : s \in Range(dfa.acceptStates))

\* C38: every transition in the list of the editor has its source state and
\* its next state among the nodes of the diagram, and the definition
\* buildMachineFromEditor returns for the editor has its start state, its
\* accept states and the source and next state of every transition among
\* its states.
C38_TransitionsNameDeclaredStates ==
    /\ \A i \in DOMAIN editor.transitions :
          /\ editor.transitions[i].fromState \in DOMAIN editor.nodes
          /\ editor.transitions[i].nextState \in DOMAIN editor.nodes
    /\ LET built == buildMachineFromEditor(editor, field)
       IN built.ok =>
             /\ built.definition.states = DOMAIN editor.nodes
             /\ built.definition.startState \in built.definition.states
             /\ built.definition.acceptStates \subseteq built.definition.states
             /\ \A key \in DOMAIN built.definition.transitions :
                   /\ key[1] \in built.definition.states
                   /\ built.definition.transitions[key].nextState
                         \in built.definition.states

\* a state that had transitions has been deleted, another has been added,
\* the list names it, and a machine can be built
C38_Witness ==
    /\ "ef" \notin DOMAIN editor.nodes
    /\ "e1" \in DOMAIN editor.nodes
    /\ \E i \in DOMAIN editor.transitions : editor.transitions[i].fromState = "e1"
    /\ Len(editor.transitions) >= 2
    /\ buildMachineFromEditor(editor, field).ok

\* C39: at most one interval timer is live at any time, it is the one
\* runTimer names, and while it is live the step and run buttons are
\* disabled: no click starts a second timer and no click calls step()
\* between two ticks.
C39_OneRunTimer ==
    /\ Cardinality(ctl.timers) <= 1
    /\ ctl.timers = IF ctl.runTimer = 0 THEN {} ELSE {ctl.runTimer}
    /\ ctl.runTimer # 0 => (ctl.runDisabled /\ ctl.stepDisabled)

\* the example was loaded during a run: the timer is live with no machine
C39_Witness ==
    /\ ctl.runTimer # 0
    /\ m = <<>>
    /\ ctl.pauseDisabled

\* this step is a click on reset that reset the machine
ResetSucceeded == ResetClick /\ msg'.text = "Cintas reiniciadas."

\* C40: after a click on reset that reset the machine the step and the run
\* buttons are enabled.
C40_ResetEnablesControls ==
    [][ResetSucceeded => (~ctl'.stepDisabled /\ ~ctl'.runDisabled)]_vars

====
